---- MODULE Spec2Model ----
(***************************************************************************)
(* Model of the comment ingestion and enrichment pipeline of               *)
(* youtube_sentiment: the paginated fetcher (youtube_api.py), the language *)
(* classifier and translator (language_processor.py), the sentiment scorer *)
(* and toxicity detector (sentiment_analyzer.py) and the enrichment loop   *)
(* (main.py process_comments, app.py api_analyze).                         *)
(*                                                                         *)
(* Python values: a str is [t |-> "str", v |-> <<characters>>], None is    *)
(* PyNone.  A call's outcome is a record [kind, value, calls]: kind is     *)
(* "return" or "raise", calls is the trace of the calls it made, each with *)
(* its argument and its own outcome.  What the external libraries do       *)
(* (langdetect, deep-translator, TextBlob, the YouTube API) is chosen      *)
(* nondeterministically by the actions and handed to the functions.        *)
(* Polarity is a float in the source; here it is an integer counting       *)
(* units of 1e-7, so 0.1 is 1000000 and 0.1000001 is 1000001.              *)
(***************************************************************************)
EXTENDS Integers, Sequences, FiniteSets, TLC

\* ------------------------------------------------------------------ bounds
MaxTextLen == 2
MaxBatch == 2
MaxPages == 3
MaxPageItems == 2
MaxCap == 3
MaxReport == 4
MaxSessions == 2
MaxRequests == 2

\* ------------------------------------------------------- Python values
PyNone == [t |-> "None", v |-> <<>>]
Str(s) == [t |-> "str", v |-> s]
IsStr(x) == x.t = "str"
\* Python truthiness of a str-or-None value: None and "" are falsy
Falsy(x) == x.t = "None" \/ x.v = <<>>

Return(v, cs) == [kind |-> "return", value |-> v, calls |-> cs]
Raise(exc, cs) == [kind |-> "raise", value |-> exc, calls |-> cs]
\* one call in a trace: the function, its argument and how it ended
Outcome(kind, v) == [kind |-> kind, value |-> v]
Call(fn, arg, res) == [fn |-> fn, arg |-> arg, res |-> res]
ResultOf(r) == Outcome(r.kind, r.value)

\* ------------------------------------------------------------ characters
LowerLetters == <<"a", "b", "c", "d", "e", "f", "g", "h", "i", "j", "k", "l", "m", "n", "o", "p", "q", "r", "s", "t", "u", "v", "w", "x", "y", "z">>
UpperLetters == <<"A", "B", "C", "D", "E", "F", "G", "H", "I", "J", "K", "L", "M", "N", "O", "P", "Q", "R", "S", "T", "U", "V", "W", "X", "Y", "Z">>
Digits == <<"0", "1", "2", "3", "4", "5", "6", "7", "8", "9">>
WhitespaceChars == {" ", "\n", "\t"}
Range(f) == {f[i] : i \in DOMAIN f}
\* str.isalnum() of one character
IsAlnum(ch) == ch \in Range(LowerLetters) \cup Range(UpperLetters) \cup Range(Digits)
\* str.isspace() of one character, also the class \s of re
IsSpace(ch) == ch \in WhitespaceChars
\* the class \w of re
IsWordChar(ch) == IsAlnum(ch) \/ ch = "_"
LowerOfUpper == [u \in Range(UpperLetters) |-> LowerLetters[CHOOSE i \in 1..26 : UpperLetters[i] = u]]
LowerChar(ch) == IF ch \in DOMAIN LowerOfUpper THEN LowerOfUpper[ch] ELSE ch
\* str.lower()
Lower(s) == [i \in 1..Len(s) |-> LowerChar(s[i])]
\* text.strip() == ""
StripIsEmpty(s) == \A i \in 1..Len(s) : IsSpace(s[i])
\* needle occurs in hay starting at index i
OccursAt(hay, needle, i) ==
    /\ i >= 1
    /\ i + Len(needle) - 1 <= Len(hay)
    /\ \A k \in 1..Len(needle) : hay[i + k - 1] = needle[k]
\* needle in hay
Contains(hay, needle) ==
    \E i \in 1..(Len(hay) - Len(needle) + 1) : OccursAt(hay, needle, i)
\* \b of re between hay[p-1] and hay[p]
WordBoundary(hay, p) ==
    LET before == p > 1 /\ p - 1 <= Len(hay) /\ IsWordChar(hay[p - 1])
        after == p >= 1 /\ p <= Len(hay) /\ IsWordChar(hay[p])
    IN before # after
\* re.search(r'\bword\b', hay)
SearchWord(hay, word) ==
    \E i \in 1..Len(hay) :
        /\ OccursAt(hay, word, i)
        /\ WordBoundary(hay, i)
        /\ WordBoundary(hay, i + Len(word))
\* the positions reachable from p by \s+
AfterSpaces(hay, p) ==
    {q \in (p + 1)..(Len(hay) + 1) : \A k \in p..(q - 1) : IsSpace(hay[k])}

toxicity_keywords == <<
    <<"h", "a", "t", "e">>,
    <<"k", "i", "l", "l">>,
    <<"s", "t", "u", "p", "i", "d">>,
    <<"i", "d", "i", "o", "t">>,
    <<"d", "u", "m", "b">>,
    <<"w", "o", "r", "t", "h", "l", "e", "s", "s">>,
    <<"d", "i", "s", "g", "u", "s", "t", "i", "n", "g">>,
    <<"d", "i", "s", "g", "u", "s", "t">>,
    <<"s", "h", "u", "t", " ", "u", "p">>,
    <<"s", "h", "u", "t", "u", "p">>,
    <<"s", "h", "u", "t", " ", "y", "o", "u", "r">>,
    <<"g", "o", " ", "t", "o", " ", "h", "e", "l", "l">>,
    <<"d", "a", "m", "n">>,
    <<"r", "e", "t", "a", "r", "d">>,
    <<"r", "e", "t", "a", "r", "d", "e", "d">>,
    <<"m", "o", "r", "o", "n">>,
    <<"m", "o", "r", "o", "n", "i", "c">>,
    <<"c", "r", "a", "p">>,
    <<"t", "r", "a", "s", "h">>,
    <<"g", "a", "r", "b", "a", "g", "e">>,
    <<"u", "s", "e", "l", "e", "s", "s">>,
    <<"p", "a", "t", "h", "e", "t", "i", "c">>,
    <<"a", "w", "f", "u", "l">>,
    <<"t", "e", "r", "r", "i", "b", "l", "e">>,
    <<"h", "o", "r", "r", "i", "b", "l", "e">>,
    <<"h", "o", "r", "r", "i", "d">>>>
insult_words == <<
    <<"i", "d", "i", "o", "t">>,
    <<"s", "t", "u", "p", "i", "d">>,
    <<"d", "u", "m", "b">>,
    <<"m", "o", "r", "o", "n">>,
    <<"r", "e", "t", "a", "r", "d">>>>
word_patterns == <<<<"f", "u", "c", "k">>, <<"s", "h", "i", "t">>, <<"d", "i", "e">>, <<"k", "y", "s">>>>
WordYou == <<"y", "o", "u">>
WordAre == <<"a", "r", "e">>
WordA == <<"a">>

\* ------------------------------------------- sentiment_analyzer.py
\* 0.1 in units of 1e-7 (the thresholds of analyze_sentiment)
Threshold == 1000000

\* r'\byou\s+are\s+(a\s+)?(idiot|stupid|dumb|moron|retard)'
SearchYouAre(hay) ==
    \E i \in 1..Len(hay) :
        /\ OccursAt(hay, WordYou, i)
        /\ WordBoundary(hay, i)
        /\ \E p \in AfterSpaces(hay, i + 3) :
            /\ OccursAt(hay, WordAre, p)
            /\ \E q \in AfterSpaces(hay, p + 3) :
                \/ \E w \in DOMAIN insult_words : OccursAt(hay, insult_words[w], q)
                \/ /\ OccursAt(hay, WordA, q)
                   /\ \E r \in AfterSpaces(hay, q + 1) :
                        \E w \in DOMAIN insult_words : OccursAt(hay, insult_words[w], r)

\* a detector that looks at the text as written, without text.lower()
detect_toxicity_cased(text) ==
    IF ~IsStr(text)
    THEN Raise("AttributeError", <<>>)
    ELSE IF \E k \in DOMAIN toxicity_keywords : Contains(text.v, toxicity_keywords[k])
         THEN Return(TRUE, <<>>)
         ELSE IF \/ SearchYouAre(text.v)
                 \/ \E k \in DOMAIN word_patterns : SearchWord(text.v, word_patterns[k])
              THEN Return(TRUE, <<>>)
              ELSE Return(FALSE, <<>>)

detect_toxicity(text) ==
    IF ~IsStr(text)
    THEN Raise("AttributeError", <<>>)
    ELSE LET text_lower == Lower(text.v)
         IN IF \E k \in DOMAIN toxicity_keywords : Contains(text_lower, toxicity_keywords[k])
            THEN Return(TRUE, <<>>)
            ELSE IF \/ SearchYouAre(text_lower)
                    \/ \E k \in DOMAIN word_patterns : SearchWord(text_lower, word_patterns[k])
                 THEN Return(TRUE, <<>>)
                 ELSE Return(FALSE, <<>>)

\* thresholds that take the boundary values in
SentimentLabel_inclusive(polarity) ==
    IF polarity >= Threshold THEN "Positive"
    ELSE IF polarity <= -Threshold THEN "Negative"
    ELSE "Neutral"

\* the label of a polarity (the if/elif/else of analyze_sentiment)
SentimentLabel(polarity) ==
    IF polarity > Threshold THEN "Positive"
    ELSE IF polarity < -Threshold THEN "Negative"
    ELSE "Neutral"

\* the try block of analyze_sentiment; sc is what TextBlob does on this text
analyze_sentiment_try(text, sc) ==
    LET cs == <<Call("TextBlob", text, IF IsStr(text) THEN sc ELSE Outcome("raise", 0))>>
    IN IF ~IsStr(text) THEN Raise("TypeError", cs)
       ELSE IF sc.kind = "raise" THEN Raise("Exception", cs)
       ELSE LET polarity == IF sc.kind = "return" THEN sc.value ELSE 0
            IN Return([sentiment |-> SentimentLabel(polarity), polarity |-> polarity], cs)

\* analyze_sentiment without its except clause
analyze_sentiment_noexcept(text, sc) == analyze_sentiment_try(text, sc)

analyze_sentiment(text, sc) ==
    LET r == analyze_sentiment_try(text, sc)
    IN IF r.kind = "raise"
       THEN Return([sentiment |-> "Neutral", polarity |-> 0], r.calls)
       ELSE r

\* ------------------------------------------- language_processor.py
EN == Str(<<"e", "n">>)
FR == Str(<<"f", "r">>)
UNKNOWN == Str(<<"u", "n", "k", "n", "o", "w", "n">>)

\* a try block without the test for symbol-only text
detect_language_try_nosymbols(text, det) ==
    IF Falsy(text) THEN Return(UNKNOWN, <<>>)
    ELSE IF StripIsEmpty(text.v) THEN Return(UNKNOWN, <<>>)
    ELSE LET cs == <<Call("langdetect.detect", text, det)>>
         IN IF det.kind = "raise" THEN Raise("LangDetectException", cs)
            ELSE Return(det.value, cs)

\* the try block of detect_language; det is what langdetect.detect does
detect_language_try(text, det) ==
    IF Falsy(text) THEN Return(UNKNOWN, <<>>)
    ELSE IF StripIsEmpty(text.v) THEN Return(UNKNOWN, <<>>)
    ELSE IF \A i \in 1..Len(text.v) : ~IsAlnum(text.v[i]) THEN Return(UNKNOWN, <<>>)
    ELSE LET cs == <<Call("langdetect.detect", text, det)>>
         IN IF det.kind = "raise" THEN Raise("LangDetectException", cs)
            ELSE Return(det.value, cs)

\* detect_language without its except clause
detect_language_noexcept(text, det) == detect_language_try(text, det)

\* the except block formats text[:30], which needs a subscriptable text
detect_language(text, det) ==
    LET r == detect_language_try(text, det)
    IN IF r.kind = "raise"
       THEN IF IsStr(text) THEN Return(UNKNOWN, r.calls) ELSE Raise("TypeError", r.calls)
       ELSE r

\* a try block that passes only English through
translate_to_english_try_enonly(text, src_lang, det, be) ==
    IF Falsy(text) THEN Return(text, <<>>)
    ELSE IF StripIsEmpty(text.v) THEN Return(text, <<>>)
    ELSE LET dl == detect_language(text, det)
             d == IF src_lang = PyNone
                  THEN [dl EXCEPT !.calls = <<Call("detect_language", text, ResultOf(dl))>> \o dl.calls]
                  ELSE Return(src_lang, <<>>)
         IN IF d.kind = "raise" THEN d
            ELSE IF d.value = EN THEN Return(text, d.calls)
            ELSE LET cs == d.calls \o <<Call("GoogleTranslator.translate", text, be)>>
                 IN IF be.kind = "raise" THEN Raise("Exception", cs)
                    ELSE IF be.value = PyNone THEN Return(text, cs)
                    ELSE Return(be.value, cs)

\* the try block of translate_to_english; be is what the backend does
translate_to_english_try(text, src_lang, det, be) ==
    IF Falsy(text) THEN Return(text, <<>>)
    ELSE IF StripIsEmpty(text.v) THEN Return(text, <<>>)
    ELSE LET dl == detect_language(text, det)
             d == IF src_lang = PyNone
                  THEN [dl EXCEPT !.calls = <<Call("detect_language", text, ResultOf(dl))>> \o dl.calls]
                  ELSE Return(src_lang, <<>>)
         IN IF d.kind = "raise" THEN d
            ELSE IF d.value \in {EN, UNKNOWN} THEN Return(text, d.calls)
            ELSE LET cs == d.calls \o <<Call("GoogleTranslator.translate", text, be)>>
                 IN IF be.kind = "raise" THEN Raise("Exception", cs)
                    ELSE IF be.value = PyNone THEN Return(text, cs)
                    ELSE Return(be.value, cs)

translate_to_english(text, src_lang, det, be) ==
    LET r == translate_to_english_try(text, src_lang, det, be)
    IN IF r.kind = "raise"
       THEN IF IsStr(text) THEN Return(text, r.calls) ELSE Raise("TypeError", r.calls)
       ELSE r

\* ------------------------------------------- youtube_api.py
\* the character class [a-zA-Z0-9_-]
\* a character class without the underscore and the hyphen
IsIdChar_alnum(ch) == IsAlnum(ch)

IsIdChar(ch) == IsAlnum(ch) \/ ch = "_" \/ ch = "-"
\* ([a-zA-Z0-9_-]{11}) matches at index p
IsId11At(s, p) == p >= 1 /\ p + 10 <= Len(s) /\ \A k \in p..(p + 10) : IsIdChar(s[k])
PrefixWatchV == <<"y", "o", "u", "t", "u", "b", "e", ".", "c", "o", "m", "/", "w", "a", "t", "c", "h", "?", "v", "=">>
PrefixShort == <<"y", "o", "u", "t", "u", ".", "b", "e", "/">>
PrefixEmbed == <<"y", "o", "u", "t", "u", "b", "e", ".", "c", "o", "m", "/", "e", "m", "b", "e", "d", "/">>
PrefixWatch == <<"y", "o", "u", "t", "u", "b", "e", ".", "c", "o", "m", "/", "w", "a", "t", "c", "h", "?">>
ParamV == <<"v", "=">>
Min(a, b) == IF a <= b THEN a ELSE b
Max(a, b) == IF a >= b THEN a ELSE b
MinOf(S) == CHOOSE x \in S : \A y \in S : x <= y
MaxOf(S) == CHOOSE x \in S : \A y \in S : x >= y

\* re.search of a pattern prefix([a-zA-Z0-9_-]{11}) with the prefix one of
\* prefixes: the start indexes of the identifier, per match position
PrefixMatches(s, prefixes) ==
    {i \in 1..Len(s) : \E P \in prefixes : OccursAt(s, P, i) /\ IsId11At(s, i + Len(P))}
PrefixGroup(s, prefixes) ==
    LET i == MinOf(PrefixMatches(s, prefixes))
        P == CHOOSE Q \in prefixes : OccursAt(s, Q, i) /\ IsId11At(s, i + Len(Q))
    IN SubSeq(s, i + Len(P), i + Len(P) + 10)

\* r'youtube\.com\/watch\?.*v=([a-zA-Z0-9_-]{11})': the greedy .* stays on
\* one line and takes the last v= that an identifier follows
WatchAnyV(s, i) ==
    {j \in (i + Len(PrefixWatch))..Len(s) :
        /\ OccursAt(s, ParamV, j)
        /\ IsId11At(s, j + 2)
        /\ \A k \in (i + Len(PrefixWatch))..(j - 1) : s[k] # "\n"}
WatchMatches(s) == {i \in 1..Len(s) : OccursAt(s, PrefixWatch, i) /\ WatchAnyV(s, i) # {}}
WatchGroup(s) ==
    LET i == MinOf(WatchMatches(s))
        j == MaxOf(WatchAnyV(s, i))
    IN SubSeq(s, j + 2, j + 12)

\* re.match(r'^[a-zA-Z0-9_-]+$', v): $ also matches before a final newline
MatchesIdChars(v) ==
    \/ Len(v) >= 1 /\ \A k \in 1..Len(v) : IsIdChar(v[k])
    \/ Len(v) >= 2 /\ v[Len(v)] = "\n" /\ \A k \in 1..(Len(v) - 1) : IsIdChar(v[k])

\* the fallback of get_video_id: url[start:end] of the first v=
SimpleExtraction(s) ==
    LET at == MinOf({i \in 1..Len(s) : OccursAt(s, ParamV, i)})
        start == at + 2
        amps == {k \in start..Len(s) : s[k] = "&"}
        end == IF amps = {} THEN Len(s) + 1 ELSE MinOf(amps)
    IN SubSeq(s, start, end - 1)

get_video_id(url) ==
    IF Falsy(url) THEN PyNone
    ELSE LET s == url.v
         IN IF PrefixMatches(s, {PrefixWatchV, PrefixShort, PrefixEmbed}) # {}
            THEN Str(PrefixGroup(s, {PrefixWatchV, PrefixShort, PrefixEmbed}))
            ELSE IF WatchMatches(s) # {} THEN Str(WatchGroup(s))
            ELSE IF PrefixMatches(s, {PrefixShort}) # {} THEN Str(PrefixGroup(s, {PrefixShort}))
            ELSE IF PrefixMatches(s, {PrefixEmbed}) # {} THEN Str(PrefixGroup(s, {PrefixEmbed}))
            ELSE IF Contains(s, ParamV)
                    /\ Len(SimpleExtraction(s)) = 11
                    /\ MatchesIdChars(SimpleExtraction(s))
                 THEN Str(SimpleExtraction(s))
                 ELSE PyNone

\* comments[:n]
Slice(s, n) ==
    IF n >= 0 THEN SubSeq(s, 1, Min(n, Len(s)))
    ELSE SubSeq(s, 1, Max(0, Len(s) + n))

\* the video references a caller supplies
Urls == {
    Str(<<"h", "t", "t", "p", "s", ":", "/", "/", "w", "w", "w", ".", "y", "o", "u", "t", "u", "b", "e", ".", "c", "o", "m", "/", "w", "a", "t", "c", "h", "?", "v", "=", "d", "Q", "w", "4", "w", "9", "W", "g", "X", "c", "Q">>),
    Str(<<"h", "t", "t", "p", "s", ":", "/", "/", "y", "o", "u", "t", "u", ".", "b", "e", "/", "d", "Q", "w", "4", "w", "9", "W", "g", "X", "c", "Q">>),
    Str(<<"h", "t", "t", "p", "s", ":", "/", "/", "w", "w", "w", ".", "y", "o", "u", "t", "u", "b", "e", ".", "c", "o", "m", "/", "w", "a", "t", "c", "h", "?", "t", "=", "1", "&", "v", "=", "a", "_", "c", "-", "e", "0", "g", "1", "i", "2", "k">>),
    Str(<<"h", "t", "t", "p", "s", ":", "/", "/", "e", "x", "a", "m", "p", "l", "e", ".", "c", "o", "m", "/", "v", "i", "d", "e", "o">>),
    Str(<<>>)}

\* ------------------------------------------------------------ inputs
\* video identifiers: 11 characters of [a-zA-Z0-9_-]
VideoIds == {
    <<"d", "Q", "w", "4", "w", "9", "W", "g", "X", "c", "Q">>,
    <<"a", "_", "c", "-", "e", "0", "g", "1", "i", "2", "k">>,
    <<"-", "_", "-", "_", "-", "_", "-", "_", "-", "_", "-">>,
    <<"0", "1", "2", "3", "4", "5", "6", "7", "8", "9", "Z">>}
HttpsWww == <<"h", "t", "t", "p", "s", ":", "/", "/", "w", "w", "w", ".">>
Https == <<"h", "t", "t", "p", "s", ":", "/", "/">>
\* the URL forms of a video: watch?v=ID, watch?t=1&v=ID, watch?t=1&v=ID&n=2,
\* youtu.be/ID, youtu.be/ID?t=1, embed/ID
WatchUrl(id) == HttpsWww \o PrefixWatchV \o id
WatchUrlLaterV(id) == HttpsWww \o PrefixWatch \o <<"t", "=", "1", "&">> \o ParamV \o id
WatchUrlMiddleV(id) == WatchUrlLaterV(id) \o <<"&", "n", "=", "2">>
ShortUrl(id) == Https \o PrefixShort \o id
ShortUrlTimed(id) == ShortUrl(id) \o <<"?", "t", "=", "1">>
EmbedUrl(id) == HttpsWww \o PrefixEmbed \o id
UrlForms(id) ==
    {WatchUrl(id), WatchUrlLaterV(id), WatchUrlMiddleV(id), ShortUrl(id), ShortUrlTimed(id), EmbedUrl(id)}
\* strings that are none of these forms and hold a v= parameter
OtherUrls == {
    <<"x", "?", "v", "=", "a", "b", "c", "d", "e", "f", "g", "h", "i", "j", "k">>,
    <<"x", "?", "v", "=", "a", "b", "c", "d", "e", "f", "g", "h", "i", "j", "k", "&", "t", "=", "1">>,
    <<"x", "?", "v", "=", "a", "b", "c", "d", "e", "f", "g", "h", "i", "j", "\n">>,
    <<"x", "?", "v", "=", "a", "b", "c", "!", "e", "f", "g", "h", "i", "j", "k">>,
    <<"x", "?", "v", "=", "a", "b", "c", "d", "e", "f", "g", "h", "i", "j", "k", "l">>,
    <<"x", "?", "v", "=", "a", "b", "c">>,
    <<"v", "=">>}
UrlInputs ==
    Urls \cup {Str(u) : u \in UNION {UrlForms(id) : id \in VideoIds}}
         \cup {Str(u) : u \in OtherUrls} \cup {PyNone}

\* the largest page size the API takes (maxResults of commentThreads.list)
PageSizeMax == 100
\* the values of max_results: small ones, and one above the page size
CapValues == ((-1)..MaxCap) \cup {PageSizeMax + 1}
ApiKeys == {PyNone, Str(<<>>), Str(<<"k", "e", "y">>)}
PageTokens == {Str(<<"P", "1">>), Str(<<"P", "2">>)}
UpstreamErrors == {"quotaExceeded"}

\* what langdetect.detect, GoogleTranslator.translate and TextBlob(..).sentiment
\* can do on one call
DetectorOutcomes == {Outcome("return", EN), Outcome("return", FR), Outcome("raise", PyNone)}
BackendOutcomes == {Outcome("return", Str(<<"I", " ", "h", "a", "t", "e", " ", "i", "t">>)), Outcome("return", Str(<<>>)),
                    Outcome("return", PyNone), Outcome("raise", PyNone)}
Polarities == {-10000000, -1000001, -1000000, 0, 1000000, 1000001, 10000000}
ScorerOutcomes == {Outcome("return", p) : p \in Polarities}
                  \cup {Outcome("noattr", 0), Outcome("raise", 0)}
\* the scorer outcomes the enrichment loop is run with
LoopScorerOutcomes == {Outcome("return", 1000001), Outcome("return", -1000001),
                       Outcome("raise", 0)}

SmallAlphabet == {" ", "!", "a", "B"}
ShortTexts == UNION {[1..k -> SmallAlphabet] : k \in 0..MaxTextLen}
SampleTexts == {
    <<"I", " ", "h", "a", "t", "e", " ", "i", "t">>,
    <<"H", "o", "l", "a", " ", "a", "m", "i", "g", "o">>,
    <<"n", "o", "t", " ", "s", "t", "u", "p", "i", "d">>,
    <<"y", "o", "u", " ", "a", "r", "e", " ", " ", "a", " ", "M", "O", "R", "O", "N">>,
    <<"t", "o", " ", "d", "i", "e", " ", "f", "o", "r">>,
    <<"s", "t", "u", "d", "i", "e", "d">>,
    <<" ", " ", "\n">>,
    <<"!", "?", "_">>,
    <<"K", "Y", "S">>,
    <<"S", "k", "i", "l", "l">>}
InputTexts == {Str(s) : s \in ShortTexts \cup SampleTexts} \cup {PyNone}
SourceLanguages == {PyNone, EN, UNKNOWN, FR}
CommentTexts == {Str(<<>>), Str(<<"H", "o", "l", "a">>), Str(<<"s", "o", " ", "d", "u", "m", "b">>)}

\* the comment built from one item of a page response (youtube_api.py 106-115)
Comment(k, text) ==
    [id |-> k, author |-> "author", text |-> text, published_at |-> k,
     like_count |-> 0, updated_at |-> k]
ItemText == Str(<<"n", "i", "c", "e">>)
\* the n items of a page that arrives after `served` items
PageItems(served, n) == [j \in 1..n |-> Comment(served + j, ItemText)]
Batches == UNION {[1..n -> CommentTexts] : n \in 0..MaxBatch}
Batch(texts) == [j \in 1..Len(texts) |-> Comment(j, texts[j])]

\* ------------------------------------------------------------- state
VARIABLES
    pc,                 \* position of the operation under way
    video_url,          \* fetch: argument
    api_key,            \* fetch: YOUTUBE_API_KEY
    mode,               \* fetch: "capped" (fetch_comments) or "all" (fetch_all_comments)
    max_results,        \* fetch: argument of fetch_comments
    client_built,       \* fetch: build(...) was called
    comments,           \* fetch: the accumulator of the loop
    next_page_token,    \* fetch: the loop's cursor
    requests,           \* fetch: the page requests issued, in order
    pages,              \* fetch: the page responses received, in order
    fetch_ret,          \* fetch: how the call ended
    raw,                \* enrichment: the fetched comments it iterates over
    processed_comments, \* enrichment: the list being built
    original_language,  \* enrichment: local of the iteration under way
    translated_text,    \* enrichment: local of the iteration under way
    sentiment_result,   \* enrichment: local of the iteration under way
    last_calls,         \* enrichment: the calls of the latest iteration
    enrich_ret,         \* enrichment: how the loop ended
    call,               \* a direct call of one function
    processed_data,     \* web dashboard: module global
    analysis_summary,   \* web dashboard: module global
    chatbot_model,      \* web dashboard: module global
    sessions,           \* web dashboard: per browser session, its requests
    db,                 \* api: the committed rows of search_history and comment_analysis
    responses,          \* api: the responses sent, in order
    api_requests        \* api: the number of requests received

vars == <<pc, video_url, api_key, mode, max_results, client_built, comments,
          next_page_token, requests, pages, fetch_ret, raw, processed_comments,
          original_language, translated_text, sentiment_result,
          last_calls, enrich_ret, call,
          processed_data, analysis_summary, chatbot_model, sessions,
          db, responses, api_requests>>
fetchVars == <<video_url, api_key, mode, max_results, client_built, comments,
               next_page_token, requests, pages, fetch_ret>>
enrichVars == <<raw, processed_comments, original_language, translated_text,
                sentiment_result, last_calls, enrich_ret>>

dashVars == <<processed_data, analysis_summary, chatbot_model, sessions>>
apiVars == <<db, responses, api_requests>>

Pending == [kind |-> "pending", value |-> <<>>, calls |-> <<>>]
NoSentiment == [sentiment |-> "", polarity |-> 0]
NoCall == [fn |-> "none", text |-> PyNone, src_lang |-> PyNone, ret |-> Pending]

\* the browser sessions that use the dashboard
Sessions == 1..MaxSessions
\* no request of the session has been served
NoSession == [dash |-> "idle", shown |-> <<>>, chat |-> "idle", context |-> <<>>]
\* web_dashboard.py 39-41
DashIdle ==
    /\ processed_data = <<>>
    /\ chatbot_model = PyNone
    /\ analysis_summary = <<>>
    /\ sessions = [u \in Sessions |-> NoSession]

\* an empty database, nothing received
ApiIdle ==
    /\ db = [search_history |-> <<>>, comment_analysis |-> <<>>]
    /\ responses = <<>>
    /\ api_requests = 0

Idle ==
    /\ DashIdle
    /\ ApiIdle
    /\ video_url = PyNone /\ api_key = PyNone /\ mode = "capped" /\ max_results = 0
    /\ client_built = FALSE /\ comments = <<>> /\ next_page_token = PyNone
    /\ requests = <<>> /\ pages = <<>> /\ fetch_ret = Pending
    /\ raw = <<>> /\ processed_comments = <<>> /\ last_calls = <<>>
    /\ original_language = PyNone /\ translated_text = PyNone
    /\ sentiment_result = NoSentiment
    /\ enrich_ret = Pending /\ call = NoCall

\* ------------------------------------------- fetch_comments / fetch_all_comments
InitFetch == pc = "fetch_start" /\ Idle

\* a start that builds the API client before it tests the credential
FetchStart_buildfirst(url, key, m, mx) ==
    /\ pc = "fetch_start"
    /\ video_url' = url /\ api_key' = key /\ mode' = m /\ max_results' = mx
    /\ next_page_token' = PyNone /\ comments' = <<>>
    /\ IF Falsy(get_video_id(url))
       THEN /\ pc' = "raised"
            /\ fetch_ret' = Raise("ValueError: Invalid YouTube URL or unable to extract video ID", <<>>)
            /\ client_built' = FALSE
       ELSE /\ client_built' = TRUE
            /\ IF Falsy(key)
               THEN /\ pc' = "raised"
                    /\ fetch_ret' = Raise("ValueError: YouTube API key not found", <<>>)
               ELSE IF m = "capped" /\ ~(0 < mx)
               THEN pc' = "returned" /\ fetch_ret' = Return(Slice(<<>>, mx), <<>>)
               ELSE pc' = "fetch_loop" /\ fetch_ret' = Pending
    /\ UNCHANGED <<requests, pages, enrichVars, call, dashVars, apiVars>>

\* youtube_api.py 78-88 and 138-148, with the first test of the while loop
FetchStart(url, key, m, mx) ==
    /\ pc = "fetch_start"
    /\ video_url' = url /\ api_key' = key /\ mode' = m /\ max_results' = mx
    /\ next_page_token' = PyNone /\ comments' = <<>>
    /\ IF Falsy(get_video_id(url))
       THEN /\ pc' = "raised"
            /\ fetch_ret' = Raise("ValueError: Invalid YouTube URL or unable to extract video ID", <<>>)
            /\ client_built' = FALSE
       ELSE IF Falsy(key)
       THEN /\ pc' = "raised"
            /\ fetch_ret' = Raise("ValueError: YouTube API key not found", <<>>)
            /\ client_built' = FALSE
       ELSE /\ client_built' = TRUE
            /\ IF m = "capped" /\ ~(0 < mx)
               THEN pc' = "returned" /\ fetch_ret' = Return(Slice(<<>>, mx), <<>>)
               ELSE pc' = "fetch_loop" /\ fetch_ret' = Pending
    /\ UNCHANGED <<requests, pages, enrichVars, call, dashVars, apiVars>>

\* a request that asks for all that is still missing
PageRequest_nomin ==
    [maxResults |-> IF mode = "capped" THEN max_results - Len(comments) ELSE PageSizeMax,
     pageToken |-> next_page_token]

\* the request of one loop iteration (youtube_api.py 93-99, 151-157)
PageRequest ==
    [maxResults |-> IF mode = "capped"
                    THEN Min(PageSizeMax, max_results - Len(comments))
                    ELSE PageSizeMax,
     pageToken |-> next_page_token]

\* a loop that applies the count cap in both modes
LoopContinues_capped(acc, tok) ==
    /\ ~Falsy(tok)
    /\ Len(acc) < max_results

\* the loop goes round again after a page that left the accumulator at acc
\* and returned the token tok (youtube_api.py 121-122, 150 and 176-177)
LoopContinues(acc, tok) ==
    /\ ~Falsy(tok)
    /\ mode = "capped" => Len(acc) < max_results

\* the return without the final slice
FetchResult_noslice(acc) == acc

\* the value the function returns from the accumulator acc
FetchResult(acc) == IF mode = "capped" THEN Slice(acc, max_results) ELSE acc

\* an iteration that does not store the token of the response
FetchPageOk_keeptoken(n, tok) ==
    /\ pc = "fetch_loop"
    /\ Len(pages) + 1 >= MaxPages => tok = PyNone
    /\ LET items == PageItems(Len(comments), n)
           acc == comments \o items
       IN /\ requests' = Append(requests, PageRequest)
          /\ pages' = Append(pages, [items |-> items, nextPageToken |-> tok])
          /\ comments' = acc
          /\ IF LoopContinues(acc, tok)
             THEN pc' = "fetch_loop" /\ fetch_ret' = Pending
             ELSE pc' = "returned" /\ fetch_ret' = Return(FetchResult(acc), <<>>)
    /\ UNCHANGED <<video_url, api_key, mode, max_results, client_built, next_page_token>>
    /\ UNCHANGED <<enrichVars, call, dashVars, apiVars>>

\* one iteration whose request.execute() returns n items and the token tok
FetchPageOk(n, tok) ==
    /\ pc = "fetch_loop"
    /\ Len(pages) + 1 >= MaxPages => tok = PyNone
    /\ LET items == PageItems(Len(comments), n)
           acc == comments \o items
       IN /\ requests' = Append(requests, PageRequest)
          /\ pages' = Append(pages, [items |-> items, nextPageToken |-> tok])
          /\ comments' = acc
          /\ next_page_token' = tok
          /\ IF LoopContinues(acc, tok)
             THEN pc' = "fetch_loop" /\ fetch_ret' = Pending
             ELSE pc' = "returned" /\ fetch_ret' = Return(FetchResult(acc), <<>>)
    /\ UNCHANGED <<video_url, api_key, mode, max_results, client_built>>
    /\ UNCHANGED <<enrichVars, call, dashVars, apiVars>>

\* a failed request that hands back what was accumulated
FetchPageError_partial(e) ==
    /\ pc = "fetch_loop"
    /\ requests' = Append(requests, PageRequest)
    /\ pc' = "returned"
    /\ fetch_ret' = Return(FetchResult(comments), <<>>)
    /\ UNCHANGED <<video_url, api_key, mode, max_results, client_built, comments,
                   next_page_token, pages>>
    /\ UNCHANGED <<enrichVars, call, dashVars, apiVars>>

\* one iteration whose request.execute() raises e (youtube_api.py 101-104, 159-162)
FetchPageError(e) ==
    /\ pc = "fetch_loop"
    /\ requests' = Append(requests, PageRequest)
    /\ pc' = "raised"
    /\ fetch_ret' = Raise(<<"Error fetching comments: ", e>>, <<>>)
    /\ UNCHANGED <<video_url, api_key, mode, max_results, client_built, comments,
                   next_page_token, pages>>
    /\ UNCHANGED <<enrichVars, call, dashVars, apiVars>>

NextFetch ==
    \/ \E url \in Urls, key \in ApiKeys, m \in {"capped", "all"} :
         \E mx \in IF m = "capped" THEN CapValues ELSE {0} : FetchStart(url, key, m, mx)
    \/ \E n \in 0..MaxPageItems, tok \in PageTokens \cup {PyNone} : FetchPageOk(n, tok)
    \/ \E e \in UpstreamErrors : FetchPageError(e)

SpecFetch == InitFetch /\ [][NextFetch]_vars

\* an iteration of fetch_comments after the histories requests and pages are
\* full: the same statements, with the request and the response not recorded
FetchPageBeyond(n, tok) ==
    /\ pc = "fetch_loop"
    /\ mode = "capped"
    /\ Len(pages) + 1 >= MaxPages
    /\ LET acc == comments \o PageItems(Len(comments), n)
       IN /\ comments' = acc
          /\ next_page_token' = tok
          /\ IF LoopContinues(acc, tok)
             THEN pc' = "fetch_loop" /\ fetch_ret' = Pending
             ELSE pc' = "returned" /\ fetch_ret' = Return(FetchResult(acc), <<>>)
    /\ UNCHANGED <<video_url, api_key, mode, max_results, client_built, requests, pages>>
    /\ UNCHANGED <<enrichVars, call, dashVars, apiVars>>

\* fetch_comments with an upstream that answers every request, for as long
\* as the loop asks
NextFetchCapped ==
    \/ \E url \in Urls, key \in ApiKeys, mx \in (-1)..MaxCap : FetchStart(url, key, "capped", mx)
    \/ \E n \in 0..MaxPageItems, tok \in PageTokens \cup {PyNone} : FetchPageOk(n, tok)
    \/ \E n \in 0..MaxPageItems, tok \in PageTokens \cup {PyNone} : FetchPageBeyond(n, tok)

\* the call keeps running: a step is taken whenever one can be
SpecFetchCapped == InitFetch /\ [][NextFetchCapped]_vars /\ WF_vars(NextFetchCapped)

\* ------------------------------------------- the enrichment loop
\* process_comments (main.py 56-89) and api_analyze (app.py 91-118) run the
\* same loop; one action per statement of its body
InitEnrich ==
    /\ pc = "enrich_detect"
    /\ \E texts \in Batches : raw = Batch(texts)
    /\ video_url = PyNone /\ api_key = PyNone /\ mode = "capped" /\ max_results = 0
    /\ client_built = FALSE /\ comments = <<>> /\ next_page_token = PyNone
    /\ requests = <<>> /\ pages = <<>> /\ fetch_ret = Pending
    /\ processed_comments = <<>> /\ last_calls = <<>>
    /\ original_language = PyNone /\ translated_text = PyNone
    /\ sentiment_result = NoSentiment
    /\ DashIdle /\ ApiIdle
    /\ enrich_ret = Pending /\ call = NoCall

\* a loop whose iterations all read the first comment
comment_first == raw[1]

\* the comment of the iteration under way
comment == raw[Len(processed_comments) + 1]

\* a call that raised inside the loop ends process_comments
Propagate(r) ==
    /\ pc' = "raised"
    /\ enrich_ret' = Raise(r.value, <<>>)

\* original_language = detect_language(comment['text'])
DetectStage(det) ==
    /\ pc = "enrich_detect"
    /\ Len(processed_comments) < Len(raw)
    /\ LET r == detect_language(comment.text, det)
       IN /\ last_calls' = <<Call("detect_language", comment.text, ResultOf(r))>> \o r.calls
          /\ IF r.kind = "raise"
             THEN Propagate(r) /\ UNCHANGED original_language
             ELSE /\ original_language' = r.value
                  /\ pc' = "enrich_translate"
                  /\ UNCHANGED enrich_ret
    /\ UNCHANGED <<raw, processed_comments, translated_text, sentiment_result, call>>
    /\ UNCHANGED <<fetchVars, dashVars, apiVars>>

\* if original_language != 'en': translated_text = translate_to_english(...)
\* else: translated_text = comment['text']
TranslateStage(det, be) ==
    /\ pc = "enrich_translate"
    /\ IF original_language # EN
       THEN LET r == translate_to_english(comment.text, PyNone, det, be)
            IN /\ last_calls' = last_calls
                      \o <<Call("translate_to_english", comment.text, ResultOf(r))>> \o r.calls
               /\ IF r.kind = "raise"
                  THEN Propagate(r) /\ UNCHANGED translated_text
                  ELSE /\ translated_text' = r.value
                       /\ pc' = "enrich_sentiment"
                       /\ UNCHANGED enrich_ret
       ELSE /\ translated_text' = comment.text
            /\ pc' = "enrich_sentiment"
            /\ UNCHANGED <<last_calls, enrich_ret>>
    /\ UNCHANGED <<raw, processed_comments, original_language, sentiment_result, call>>
    /\ UNCHANGED <<fetchVars, dashVars, apiVars>>

\* sentiment_result = analyze_sentiment(translated_text)
SentimentStage(sc) ==
    /\ pc = "enrich_sentiment"
    /\ LET r == analyze_sentiment(translated_text, sc)
       IN /\ last_calls' = last_calls
                 \o <<Call("analyze_sentiment", translated_text, ResultOf(r))>> \o r.calls
          /\ IF r.kind = "raise"
             THEN Propagate(r) /\ UNCHANGED sentiment_result
             ELSE /\ sentiment_result' = r.value
                  /\ pc' = "enrich_toxicity"
                  /\ UNCHANGED enrich_ret
    /\ UNCHANGED <<raw, processed_comments, original_language, translated_text, call>>
    /\ UNCHANGED <<fetchVars, dashVars, apiVars>>

\* the toxicity detector run on the raw text
ToxicityInput_raw == comment.text

\* the text that the toxicity detector is given (main.py 75)
ToxicityInput == translated_text

\* is_toxic = detect_toxicity(translated_text); the record is built and
\* appended (main.py 75-87)
ToxicityStage ==
    /\ pc = "enrich_toxicity"
    /\ LET r == detect_toxicity(ToxicityInput)
       IN /\ last_calls' = Append(last_calls, Call("detect_toxicity", ToxicityInput, ResultOf(r)))
          /\ IF r.kind = "raise"
             THEN Propagate(r) /\ UNCHANGED processed_comments
             ELSE /\ processed_comments' = Append(processed_comments,
                        [id |-> comment.id,
                         author |-> comment.author,
                         text |-> comment.text,
                         published_at |-> comment.published_at,
                         like_count |-> comment.like_count,
                         updated_at |-> comment.updated_at,
                         original_language |-> original_language,
                         translated_text |-> translated_text,
                         sentiment |-> sentiment_result.sentiment,
                         polarity |-> sentiment_result.polarity,
                         is_toxic |-> r.value])
                  /\ pc' = "enrich_detect"
                  /\ UNCHANGED enrich_ret
    /\ original_language' = PyNone
    /\ translated_text' = PyNone
    /\ sentiment_result' = NoSentiment
    /\ UNCHANGED <<raw, call>>
    /\ UNCHANGED <<fetchVars, dashVars, apiVars>>

\* the loop is over; return processed_comments (main.py 89)
EnrichReturn ==
    /\ pc = "enrich_detect"
    /\ Len(processed_comments) = Len(raw)
    /\ pc' = "returned"
    /\ enrich_ret' = Return(processed_comments, <<>>)
    /\ UNCHANGED <<raw, processed_comments, original_language, translated_text,
                   sentiment_result, last_calls, call>>
    /\ UNCHANGED <<fetchVars, dashVars, apiVars>>

NextEnrich ==
    \/ \E det \in DetectorOutcomes : DetectStage(det)
    \/ \E det \in DetectorOutcomes, be \in BackendOutcomes : TranslateStage(det, be)
    \/ \E sc \in LoopScorerOutcomes : SentimentStage(sc)
    \/ ToxicityStage
    \/ EnrichReturn

SpecEnrich == InitEnrich /\ [][NextEnrich]_vars

\* ------------------------------------------- direct calls of the classifiers
InitCalls == pc = "calls" /\ Idle

\* detect_language(text)
CallDetectLanguage(text, det) ==
    /\ pc = "calls"
    /\ pc' = "called"
    /\ call' = [fn |-> "detect_language", text |-> text, src_lang |-> PyNone,
                ret |-> detect_language(text, det)]
    /\ UNCHANGED <<fetchVars, enrichVars, dashVars, apiVars>>

\* translate_to_english(text, src_lang)
CallTranslateToEnglish(text, src_lang, det, be) ==
    /\ pc = "calls"
    /\ pc' = "called"
    /\ call' = [fn |-> "translate_to_english", text |-> text, src_lang |-> src_lang,
                ret |-> translate_to_english(text, src_lang, det, be)]
    /\ UNCHANGED <<fetchVars, enrichVars, dashVars, apiVars>>

\* analyze_sentiment(text)
CallAnalyzeSentiment(text, sc) ==
    /\ pc = "calls"
    /\ pc' = "called"
    /\ call' = [fn |-> "analyze_sentiment", text |-> text, src_lang |-> PyNone,
                ret |-> analyze_sentiment(text, sc)]
    /\ UNCHANGED <<fetchVars, enrichVars, dashVars, apiVars>>

\* detect_toxicity(text)
CallDetectToxicity(text) ==
    /\ pc = "calls"
    /\ pc' = "called"
    /\ call' = [fn |-> "detect_toxicity", text |-> text, src_lang |-> PyNone,
                ret |-> detect_toxicity(text)]
    /\ UNCHANGED <<fetchVars, enrichVars, dashVars, apiVars>>

\* get_video_id(url)
CallGetVideoId(url) ==
    /\ pc = "calls"
    /\ pc' = "called"
    /\ call' = [fn |-> "get_video_id", text |-> url, src_lang |-> PyNone,
                ret |-> Return(get_video_id(url), <<>>)]
    /\ UNCHANGED <<fetchVars, enrichVars, dashVars, apiVars>>

NextCalls ==
    \/ \E text \in InputTexts, det \in DetectorOutcomes : CallDetectLanguage(text, det)
    \/ \E text \in InputTexts, src_lang \in SourceLanguages,
          det \in DetectorOutcomes, be \in BackendOutcomes :
            CallTranslateToEnglish(text, src_lang, det, be)
    \/ \E text \in InputTexts, sc \in ScorerOutcomes : CallAnalyzeSentiment(text, sc)
    \/ \E text \in InputTexts : CallDetectToxicity(text)
    \/ \E url \in UrlInputs : CallGetVideoId(url)

SpecCalls == InitCalls /\ [][NextCalls]_vars

\* ------------------------------------------- summaries and rankings
\* the sample lists hold 3 entries per label in get_analysis_summary and 5 in
\* the response of api_analyze; an excerpt keeps 100 characters
SampleCap == 3
ApiSampleCap == 5
ExcerptLen == 100
Ellipsis == <<".", ".", ".">>

\* collections.Counter of a list that counts every key once
Counter_presence(seq) == [k \in Range(seq) |-> 1]

\* dict(Counter(seq)): the number of occurrences of every value of seq
Counter(seq) == [k \in Range(seq) |-> Cardinality({i \in DOMAIN seq : seq[i] = k})]

\* a selection that lists the latest comments of the label first
WithSentiment_reversed(processed, label) ==
    LET Test(c) == c.sentiment = label
        sel == SelectSeq(processed, Test)
    IN [i \in 1..Len(sel) |-> sel[Len(sel) + 1 - i]]

\* [c for c in processed if c['sentiment'] == label]
WithSentiment(processed, label) ==
    LET Test(c) == c.sentiment = label IN SelectSeq(processed, Test)
\* [c for c in processed if c['is_toxic']]
Toxic(processed) ==
    LET Test(c) == c.is_toxic IN SelectSeq(processed, Test)

\* c['text'][:100] + '...' if len(c['text']) > 100 else c['text']
Excerpt(text) ==
    IF Len(text.v) > ExcerptLen
    THEN Str(SubSeq(text.v, 1, ExcerptLen) \o Ellipsis)
    ELSE text
Excerpts(cs) == [i \in DOMAIN cs |-> Excerpt(cs[i].text)]
Texts(cs) == [i \in DOMAIN cs |-> cs[i].text]

\* a summary whose sentiment distribution has a count for each of the labels
get_analysis_summary_alllabels(processed) ==
    [total_comments |-> Len(processed),
     sentiment_distribution |->
        [L \in {"Positive", "Negative", "Neutral"} |-> Len(WithSentiment(processed, L))],
     language_distribution |-> Counter([i \in DOMAIN processed |-> processed[i].original_language]),
     toxic_comments_count |-> Len(Toxic(processed)),
     sample_comments |->
        [positive |-> Excerpts(Slice(WithSentiment(processed, "Positive"), SampleCap)),
         negative |-> Excerpts(Slice(WithSentiment(processed, "Negative"), SampleCap)),
         neutral |-> Excerpts(Slice(WithSentiment(processed, "Neutral"), SampleCap))]]

\* main.py 111-146
get_analysis_summary(processed) ==
    [total_comments |-> Len(processed),
     sentiment_distribution |-> Counter([i \in DOMAIN processed |-> processed[i].sentiment]),
     language_distribution |-> Counter([i \in DOMAIN processed |-> processed[i].original_language]),
     toxic_comments_count |-> Len(Toxic(processed)),
     sample_comments |->
        [positive |-> Excerpts(Slice(WithSentiment(processed, "Positive"), SampleCap)),
         negative |-> Excerpts(Slice(WithSentiment(processed, "Negative"), SampleCap)),
         neutral |-> Excerpts(Slice(WithSentiment(processed, "Neutral"), SampleCap))]]

\* the summary part of the response of api_analyze (app.py 120-125, 158-169)
api_analyze_response(processed) ==
    [success |-> TRUE,
     comments |-> processed,
     total_comments |-> Len(processed),
     sentiment_distribution |-> Counter([i \in DOMAIN processed |-> processed[i].sentiment]),
     language_distribution |-> Counter([i \in DOMAIN processed |-> processed[i].original_language]),
     sample_comments |->
        [positive |-> Slice(Texts(WithSentiment(processed, "Positive")), ApiSampleCap),
         negative |-> Slice(Texts(WithSentiment(processed, "Negative")), ApiSampleCap),
         neutral |-> Slice(Texts(WithSentiment(processed, "Neutral")), ApiSampleCap)]]

\* x comes before y in the order of sorted(key=polarity, reverse=reverse)
Before(x, y, reverse) == IF reverse THEN x.polarity > y.polarity ELSE x.polarity < y.polarity

\* an insertion that puts x in front of the elements of equal polarity
InsertSorted_unstable(done, x, reverse) ==
    LET n == Cardinality({i \in DOMAIN done : Before(done[i], x, reverse)})
    IN SubSeq(done, 1, n) \o <<x>> \o SubSeq(done, n + 1, Len(done))

\* x put into the sorted list done, behind the elements that do not come
\* after it: sorted() keeps equal keys in their original order, with
\* reverse=True too
InsertSorted(done, x, reverse) ==
    LET n == Cardinality({i \in DOMAIN done : ~Before(x, done[i], reverse)})
    IN SubSeq(done, 1, n) \o <<x>> \o SubSeq(done, n + 1, Len(done))

RECURSIVE sorted(_, _)
\* sorted(cs, key=lambda x: x['polarity'], reverse=reverse)
sorted(cs, reverse) ==
    IF cs = <<>> THEN <<>>
    ELSE InsertSorted(sorted(SubSeq(cs, 1, Len(cs) - 1), reverse), cs[Len(cs)], reverse)

\* dashboard.py 64-85 (web_dashboard.py 377-381 with top_n = 3)
get_top_comments(comments_data, sentiment, top_n) ==
    Slice(sorted(WithSentiment(comments_data, sentiment), sentiment = "Positive"), top_n)

\* a text of n characters, toxic when asked to be
LongText(n, toxic) ==
    Str([i \in 1..n |-> IF toxic /\ i <= 4 THEN <<"h", "a", "t", "e">>[i] ELSE "x"])
\* what the enrichment makes of comments: text, language, translation, polarity
EnrichedKinds == {
    [text |-> ItemText, lang |-> EN, translated |-> ItemText, polarity |-> 9000000],
    [text |-> LongText(ExcerptLen + 1, FALSE), lang |-> EN,
     translated |-> LongText(ExcerptLen + 1, FALSE), polarity |-> 2000000],
    [text |-> Str(<<"s", "o", " ", "d", "u", "m", "b">>), lang |-> EN,
     translated |-> Str(<<"s", "o", " ", "d", "u", "m", "b">>), polarity |-> -9000000],
    [text |-> Str(<<"H", "o", "l", "a">>), lang |-> FR,
     translated |-> Str(<<"I", " ", "h", "a", "t", "e", " ", "i", "t">>), polarity |-> -2000000],
    [text |-> LongText(ExcerptLen, FALSE), lang |-> UNKNOWN,
     translated |-> LongText(ExcerptLen, FALSE), polarity |-> 0]}
\* the record process_comments builds for the k-th comment (main.py 75-87)
Enriched(k, kind) ==
    [id |-> k, author |-> "author", text |-> kind.text, published_at |-> k,
     like_count |-> 0, updated_at |-> k,
     original_language |-> kind.lang,
     translated_text |-> kind.translated,
     sentiment |-> SentimentLabel(kind.polarity),
     polarity |-> kind.polarity,
     is_toxic |-> detect_toxicity(kind.translated).value]
EnrichedList(kinds) == [k \in DOMAIN kinds |-> Enriched(k, kinds[k])]
\* lists long enough for the sample caps to cut them: comments of kind a at
\* the odd places and of kind b at the even ones
Alternating(n, a, b) == [k \in 1..n |-> IF k % 2 = 1 THEN a ELSE b]
LongLists ==
    {EnrichedList(Alternating(n, a, b)) :
        n \in {ApiSampleCap + 1, 2 * ApiSampleCap + 2}, a \in EnrichedKinds, b \in EnrichedKinds}
EnrichedLists ==
    {EnrichedList(kinds) : kinds \in UNION {[1..n -> EnrichedKinds] : n \in 0..MaxReport}}
        \cup LongLists
Labels == {"Positive", "Negative", "Neutral"}

\* a list of enriched comments is at hand
InitReport ==
    /\ pc = "report"
    /\ processed_comments \in EnrichedLists
    /\ video_url = PyNone /\ api_key = PyNone /\ mode = "capped" /\ max_results = 0
    /\ client_built = FALSE /\ comments = <<>> /\ next_page_token = PyNone
    /\ requests = <<>> /\ pages = <<>> /\ fetch_ret = Pending
    /\ raw = <<>> /\ last_calls = <<>>
    /\ original_language = PyNone /\ translated_text = PyNone
    /\ sentiment_result = NoSentiment
    /\ enrich_ret = Pending /\ call = NoCall
    /\ DashIdle /\ ApiIdle

\* get_analysis_summary(processed_comments)
CallGetAnalysisSummary ==
    /\ pc = "report"
    /\ pc' = "called"
    /\ call' = [fn |-> "get_analysis_summary",
                ret |-> Return(get_analysis_summary(processed_comments), <<>>)]
    /\ UNCHANGED <<fetchVars, enrichVars, dashVars, apiVars>>

\* api_analyze builds its response from processed_comments
ApiAnalyzeResponse ==
    /\ pc = "report"
    /\ pc' = "called"
    /\ call' = [fn |-> "api_analyze",
                ret |-> Return(api_analyze_response(processed_comments), <<>>)]
    /\ UNCHANGED <<fetchVars, enrichVars, dashVars, apiVars>>

\* get_top_comments(processed_comments, sentiment, top_n)
CallGetTopComments(sentiment, top_n) ==
    /\ pc = "report"
    /\ pc' = "called"
    /\ call' = [fn |-> "get_top_comments", sentiment |-> sentiment, top_n |-> top_n,
                ret |-> Return(get_top_comments(processed_comments, sentiment, top_n), <<>>)]
    /\ UNCHANGED <<fetchVars, enrichVars, dashVars, apiVars>>

NextReport ==
    \/ CallGetAnalysisSummary
    \/ ApiAnalyzeResponse
    \/ \E sentiment \in Labels, top_n \in 0..MaxReport : CallGetTopComments(sentiment, top_n)

SpecReport == InitReport /\ [][NextReport]_vars

\* ------------------------------------------- web dashboard callbacks
\* the comments of the video that session u analyses: u of them, by turns
\* positive, negative and neutral
DashKind(k) ==
    CHOOSE kind \in EnrichedKinds :
        kind.polarity = <<9000000, -9000000, 0>>[((k - 1) % 3) + 1]
DashBatch(u) == EnrichedList([k \in 1..u |-> DashKind(k)])
\* what process_comments does: it returns the list or raises (a fetch error)
ProcessOutcomes == {"return", "raise"}
\* what initialize_chatbot returns: a model, or None without a key
ChatbotModels == {Str(<<"m", "o", "d", "e", "l">>), PyNone}
\* the value of the video-url field: empty, or the URL of a video
DashUrls == {Str(<<>>), Str(ShortUrl(CHOOSE id \in VideoIds : id[1] = "d"))}
UserInputs == {Str(<<"w", "h", "y", "?">>), Str(<<>>), PyNone}
\* the outputs "0", "0", "0", "0" of an early or failed update_dashboard
ZeroCounts == [total |-> 0, positive |-> 0, negative |-> 0, neutral |-> 0]

Session(u, field, value) == [sessions EXCEPT ![u][field] = value]

\* an update_dashboard that empties processed_data before it fetches
DashProcess_clearfirst(u, n_clicks, url, outcome) ==
    /\ pc = "dash"
    /\ sessions[u].dash = "idle"
    /\ IF n_clicks = 0 \/ Falsy(url)
       THEN /\ sessions' = [sessions EXCEPT ![u].dash = "returned", ![u].shown = ZeroCounts]
            /\ UNCHANGED processed_data
       ELSE IF outcome = "raise"
       THEN /\ sessions' = [sessions EXCEPT ![u].dash = "failed", ![u].shown = ZeroCounts]
            /\ processed_data' = <<>>
       ELSE /\ processed_data' = DashBatch(u)
            /\ sessions' = Session(u, "dash", "summary")
    /\ UNCHANGED <<pc, analysis_summary, chatbot_model, fetchVars, enrichVars, call, apiVars>>

\* update_dashboard up to processed_data = process_comments(...)
\* (web_dashboard.py 322-340, and 401-406 when it raises)
DashProcess(u, n_clicks, url, outcome) ==
    /\ pc = "dash"
    /\ sessions[u].dash = "idle"
    /\ IF n_clicks = 0 \/ Falsy(url)
       THEN /\ sessions' = [sessions EXCEPT ![u].dash = "returned", ![u].shown = ZeroCounts]
            /\ UNCHANGED processed_data
       ELSE IF outcome = "raise"
       THEN /\ sessions' = [sessions EXCEPT ![u].dash = "failed", ![u].shown = ZeroCounts]
            /\ UNCHANGED processed_data
       ELSE /\ processed_data' = DashBatch(u)
            /\ sessions' = Session(u, "dash", "summary")
    /\ UNCHANGED <<pc, analysis_summary, chatbot_model, fetchVars, enrichVars, call, apiVars>>

\* analysis_summary = get_analysis_summary(processed_data) (web_dashboard.py 343)
DashSummary(u) ==
    /\ pc = "dash"
    /\ sessions[u].dash = "summary"
    /\ analysis_summary' = get_analysis_summary(processed_data)
    /\ sessions' = Session(u, "dash", "chatbot")
    /\ UNCHANGED <<pc, processed_data, chatbot_model, fetchVars, enrichVars, call, apiVars>>

\* chatbot_model = initialize_chatbot(...) (web_dashboard.py 346)
DashChatbot(u, m) ==
    /\ pc = "dash"
    /\ sessions[u].dash = "chatbot"
    /\ chatbot_model' = m
    /\ sessions' = Session(u, "dash", "render")
    /\ UNCHANGED <<pc, processed_data, analysis_summary, fetchVars, enrichVars, call, apiVars>>

\* the counts of the outputs (web_dashboard.py 349-354, 399)
DashRender(u) ==
    /\ pc = "dash"
    /\ sessions[u].dash = "render"
    /\ sessions' = [sessions EXCEPT
            ![u].dash = "returned",
            ![u].shown = [total |-> analysis_summary.total_comments,
                          positive |-> Len(WithSentiment(processed_data, "Positive")),
                          negative |-> Len(WithSentiment(processed_data, "Negative")),
                          neutral |-> Len(WithSentiment(processed_data, "Neutral"))]]
    /\ UNCHANGED <<pc, processed_data, analysis_summary, chatbot_model,
                   fetchVars, enrichVars, call, apiVars>>

\* update_chatbot (web_dashboard.py 414-460): context is the summary that
\* ask_question is given
UpdateChatbot(u, n_clicks, user_input) ==
    /\ pc = "dash"
    /\ sessions[u].chat = "idle"
    /\ IF n_clicks = 0 \/ Falsy(user_input)
       THEN sessions' = Session(u, "chat", "returned")
       ELSE IF ~Falsy(chatbot_model)
       THEN sessions' = [sessions EXCEPT ![u].chat = "answered", ![u].context = analysis_summary]
       ELSE sessions' = Session(u, "chat", "unavailable")
    /\ UNCHANGED <<pc, processed_data, analysis_summary, chatbot_model,
                   fetchVars, enrichVars, call, apiVars>>

InitDash == pc = "dash" /\ Idle

NextDash ==
    \E u \in Sessions :
        \/ \E n_clicks \in {0, 1}, url \in DashUrls, outcome \in ProcessOutcomes :
                DashProcess(u, n_clicks, url, outcome)
        \/ DashSummary(u)
        \/ \E m \in ChatbotModels : DashChatbot(u, m)
        \/ DashRender(u)
        \/ \E n_clicks \in {0, 1}, user_input \in UserInputs : UpdateChatbot(u, n_clicks, user_input)

SpecDash == InitDash /\ [][NextDash]_vars

\* no update_dashboard is under way
Quiet == \A u \in Sessions : sessions[u].dash \in {"idle", "returned", "failed"}

\* sequential use: a callback starts when no update_dashboard is under way
DashProcessWhenQuiet(u, n_clicks, url, outcome) ==
    Quiet /\ DashProcess(u, n_clicks, url, outcome)
UpdateChatbotWhenQuiet(u, n_clicks, user_input) ==
    Quiet /\ UpdateChatbot(u, n_clicks, user_input)

NextDashSequential ==
    \E u \in Sessions :
        \/ \E n_clicks \in {0, 1}, url \in DashUrls, outcome \in ProcessOutcomes :
                DashProcessWhenQuiet(u, n_clicks, url, outcome)
        \/ DashSummary(u)
        \/ \E m \in ChatbotModels : DashChatbot(u, m)
        \/ DashRender(u)
        \/ \E n_clicks \in {0, 1}, user_input \in UserInputs :
                UpdateChatbotWhenQuiet(u, n_clicks, user_input)

SpecDashSequential == InitDash /\ [][NextDashSequential]_vars

\* ------------------------------------------- chatbot.py
\* a Python dict is a function over its keys; the str and None values of the
\* model are no dicts (they have no get and no items)
IsDict(x) == "t" \notin DOMAIN x
\* truthiness of a context object: None, {} and "" are falsy
Empty(x) == x = <<>> \/ (~IsDict(x) /\ Falsy(x))
\* d.get(key, {})
Get(d, key) == IF key \in DOMAIN d THEN d[key] ELSE <<>>
NotAvailable == "Chatbot is not available. Please check your API configuration."
Sorry(e) == <<"Sorry, I encountered an error while processing your question: ", e>>

\* the prompt that ask_question builds (chatbot.py 145-183)
BuildPrompt(question, context_data) ==
    IF Empty(context_data) THEN Return(question, <<>>)
    ELSE IF ~IsDict(context_data) THEN Raise("AttributeError: get", <<>>)
    ELSE IF ~Empty(Get(context_data, "sample_comments"))
            /\ ~IsDict(Get(context_data, "sample_comments"))
         THEN Raise("AttributeError: items", <<>>)
         ELSE Return([context |-> context_data, question |-> question], <<>>)

\* the try block of ask_question; gen is what model.generate_content(prompt)
\* and response.text do
ask_question_try(model, question, context_data, gen) ==
    LET prompt == BuildPrompt(question, context_data)
    IN IF prompt.kind = "raise" THEN prompt
       ELSE LET cs == <<Call("generate_content", prompt.value, gen)>>
            IN IF gen.kind = "raise" THEN Raise(gen.value, cs) ELSE Return(gen.value, cs)

\* ask_question without its except clause
ask_question_noexcept(model, question, context_data, gen) ==
    IF Falsy(model) THEN Return(NotAvailable, <<>>)
    ELSE ask_question_try(model, question, context_data, gen)

\* chatbot.py 128-188
ask_question(model, question, context_data, gen) ==
    IF Falsy(model) THEN Return(NotAvailable, <<>>)
    ELSE LET r == ask_question_try(model, question, context_data, gen)
         IN IF r.kind = "raise" THEN Return(Sorry(r.value), r.calls) ELSE r

\* the questions, the context objects and what the model does on one call
Questions == UserInputs \cup {Str(<<"h", "i">>)}
Contexts ==
    {PyNone, <<>>, Str(<<"c", "t", "x">>), [sample_comments |-> Str(<<"c", "t", "x">>)],
     [total_comments |-> 0]}
        \cup {get_analysis_summary(DashBatch(u)) : u \in Sessions}
ModelOutcomes == {
    Outcome("return", Str(<<"o", "k">>)),
    Outcome("return", Str(<<>>)),
    Outcome("raise", "ResourceExhausted: quota"),
    Outcome("raise", "ValueError: response.text"),
    Outcome("raise", "")}

InitAsk == pc = "ask" /\ Idle

\* ask_question(model, question, context_data)
CallAskQuestion(model, question, context_data, gen) ==
    /\ pc = "ask"
    /\ pc' = "called"
    /\ call' = [fn |-> "ask_question", model |-> model, question |-> question,
                context_data |-> context_data, gen |-> gen,
                ret |-> ask_question(model, question, context_data, gen)]
    /\ UNCHANGED <<fetchVars, enrichVars, dashVars, apiVars>>

NextAsk ==
    \E model \in ChatbotModels, question \in Questions,
       context_data \in Contexts, gen \in ModelOutcomes :
        CallAskQuestion(model, question, context_data, gen)

SpecAsk == InitAsk /\ [][NextAsk]_vars

\* ------------------------------------------------------------ api_analyze
\* for comment in processed_comments[:50] (app.py 143)
PersistCap == 50

\* the places of values where a value occurs for the first time
Firsts(values) == {i \in DOMAIN values : \A j \in 1..(i - 1) : values[j] # values[i]}
\* dict(Counter(values)) (app.py 122-125): the items, in the order in which
\* the keys were first seen
Distribution(values) ==
    [k \in 1..Cardinality(Firsts(values)) |->
        LET i == CHOOSE x \in Firsts(values) :
                    Cardinality({j \in Firsts(values) : j <= x}) = k
        IN <<values[i], Counter(values)[values[i]]>>]
\* json.dumps of a dict: the text of its items, in their order
json_dumps(items) == [t |-> "json", v |-> items]
\* the template filter from_json (app.py 47-52): json.loads, {} when it fails
from_json_filter(value) ==
    IF IsDict(value) \/ value.t # "json" THEN <<>>
    ELSE [key \in {value.v[i][1] : i \in DOMAIN value.v} |->
            value.v[CHOOSE i \in DOMAIN value.v : value.v[i][1] = key][2]]

\* SearchHistory(...) (app.py 131-138); id is the primary key the database assigns
SearchHistory(id, youtube_url, video_id, processed) ==
    [id |-> id,
     user_id |-> "current_user",
     youtube_url |-> youtube_url,
     video_id |-> video_id,
     total_comments |-> Len(processed),
     sentiment_distribution |->
        json_dumps(Distribution([i \in DOMAIN processed |-> processed[i].sentiment])),
     language_distribution |->
        json_dumps(Distribution([i \in DOMAIN processed |-> processed[i].original_language]))]

\* CommentAnalysis(...) (app.py 144-153)
CommentAnalysis(search_id, c) ==
    [search_id |-> search_id,
     comment_id |-> c.id,
     author |-> c.author,
     text |-> c.text,
     original_language |-> c.original_language,
     sentiment |-> c.sentiment,
     polarity |-> c.polarity,
     is_toxic |-> c.is_toxic]

\* jsonify(body), status
Response(status, body) == [status |-> status, body |-> body]
UrlRequired == Response(400, [error |-> "YouTube URL is required"])
ServerError(e) == Response(500, [error |-> e])

\* the value of data.get('url'): absent, empty, the URL of a video, another URL
ApiUrls == {PyNone} \cup DashUrls \cup {Str(<<"v", "=">>)}
\* the enriched comments of a video: none, one, as many as are stored, one more
ApiKinds == {kind \in EnrichedKinds : kind.text \in {ItemText, Str(<<"H", "o", "l", "a">>)}}
ApiLists ==
    {<<>>} \cup
    {EnrichedList(Alternating(n, a, b)) :
        n \in {1, PersistCap, PersistCap + 1},
        a \in ApiKinds, b \in ApiKinds}
\* how fetching and enriching end: with the list, or with an exception
ApiAnalyses == {Return(list, <<>>) : list \in ApiLists} \cup {Raise(<<>>, <<>>)}
\* how db.session.commit() ends
CommitOutcomes == {"return", "raise"}

InitApi == pc = "api" /\ Idle

\* api_analyze up to the end of the enrichment loop (app.py 68-117): the
\* request is received when the previous one has been answered
ApiReceive(youtube_url, analysis) ==
    /\ pc \in {"api", "responded"}
    /\ api_requests < MaxRequests
    /\ api_requests' = api_requests + 1
    /\ video_url' = youtube_url
    /\ IF Falsy(youtube_url)
       THEN /\ responses' = Append(responses, UrlRequired)
            /\ processed_comments' = <<>>
            /\ pc' = "responded"
       ELSE IF analysis.kind = "raise" \/ Falsy(get_video_id(youtube_url))
       THEN /\ responses' = Append(responses, ServerError("fetch"))
            /\ processed_comments' = <<>>
            /\ pc' = "responded"
       ELSE /\ processed_comments' = analysis.value
            /\ pc' = "api_search_history"
            /\ UNCHANGED responses
    /\ UNCHANGED <<api_key, mode, max_results, client_built, comments, next_page_token,
                   requests, pages, fetch_ret, raw, original_language, translated_text,
                   sentiment_result, last_calls, enrich_ret, call, dashVars, db>>

apiFrame == <<video_url, api_key, mode, max_results, client_built, comments,
              next_page_token, requests, pages, fetch_ret, enrichVars, call, dashVars,
              api_requests>>

\* the search record is added and committed (app.py 128-140)
ApiSearchHistory(commit) ==
    /\ pc = "api_search_history"
    /\ LET video_id == get_video_id(video_url)
       IN IF Falsy(video_id)
          THEN pc' = "api_respond" /\ UNCHANGED <<db, responses>>
          ELSE IF commit = "raise"
          THEN /\ responses' = Append(responses, ServerError("commit"))
               /\ pc' = "responded"
               /\ UNCHANGED db
          ELSE /\ db' = [db EXCEPT !.search_history =
                            Append(@, SearchHistory(Len(@) + 1, video_url, video_id,
                                                    processed_comments))]
               /\ pc' = "api_comment_analysis"
               /\ UNCHANGED responses
    /\ UNCHANGED apiFrame

\* a handler that stores every enriched comment
ApiCommentAnalysis_nocap(commit) ==
    /\ pc = "api_comment_analysis"
    /\ LET search_history == db.search_history[Len(db.search_history)]
           rows == [i \in DOMAIN processed_comments |->
                        CommentAnalysis(search_history.id, processed_comments[i])]
       IN IF commit = "raise"
          THEN /\ responses' = Append(responses, ServerError("commit"))
               /\ pc' = "responded"
               /\ UNCHANGED db
          ELSE /\ db' = [db EXCEPT !.comment_analysis = @ \o rows]
               /\ pc' = "api_respond"
               /\ UNCHANGED responses
    /\ UNCHANGED apiFrame

\* the comment records are added and committed (app.py 142-156); the rows
\* added to the session are dropped with it when the commit raises
ApiCommentAnalysis(commit) ==
    /\ pc = "api_comment_analysis"
    /\ LET search_history == db.search_history[Len(db.search_history)]
           first == Slice(processed_comments, PersistCap)
           rows == [i \in DOMAIN first |-> CommentAnalysis(search_history.id, first[i])]
       IN IF commit = "raise"
          THEN /\ responses' = Append(responses, ServerError("commit"))
               /\ pc' = "responded"
               /\ UNCHANGED db
          ELSE /\ db' = [db EXCEPT !.comment_analysis = @ \o rows]
               /\ pc' = "api_respond"
               /\ UNCHANGED responses
    /\ UNCHANGED apiFrame

\* return jsonify({...}) (app.py 158-169)
ApiRespond ==
    /\ pc = "api_respond"
    /\ responses' = Append(responses, Response(200, api_analyze_response(processed_comments)))
    /\ pc' = "responded"
    /\ UNCHANGED <<apiFrame, db>>

NextApi ==
    \/ \E youtube_url \in ApiUrls, analysis \in ApiAnalyses : ApiReceive(youtube_url, analysis)
    \/ \E commit \in CommitOutcomes : ApiSearchHistory(commit)
    \/ \E commit \in CommitOutcomes : ApiCommentAnalysis(commit)
    \/ ApiRespond

SpecApi == InitApi /\ [][NextApi]_vars

\* ------------------------------------------------------------ properties
RECURSIVE Concat(_)
\* the items of the pages ps, in arrival order
Concat(ps) == IF ps = <<>> THEN <<>> ELSE ps[1].items \o Concat(Tail(ps))
IsPrefix(a, b) == Len(a) <= Len(b) /\ SubSeq(b, 1, Len(a)) = a
\* the positions of the calls of fn in the trace tr
CallsOf(tr, fn) == {i \in DOMAIN tr : tr[i].fn = fn}
LastProcessed == processed_comments[Len(processed_comments)]
\* the latest iteration of the enrichment loop appended a record
IterationDone == pc \in {"enrich_detect", "returned"} /\ processed_comments # <<>>

\* C1: the enrichment loop never aborts, whatever the detector, the
\* translation backend and the scorer do on any comment; it returns one
\* enriched record per input comment, and a comment whose detector call
\* raised has language unknown, one whose backend call raised (or gave no
\* result) has translated_text equal to its text, and one whose scorer call
\* raised is Neutral with polarity 0.
C1_FaultIsolation ==
    /\ pc # "raised"
    /\ Len(processed_comments) <= Len(raw)
    /\ \A i \in DOMAIN processed_comments : processed_comments[i].id = raw[i].id
    /\ pc = "returned" =>
        /\ enrich_ret.kind = "return"
        /\ enrich_ret.value = processed_comments
        /\ Len(enrich_ret.value) = Len(raw)
    /\ IterationDone =>
        /\ last_calls[1].fn = "detect_language"
        /\ (Len(last_calls) >= 2 /\ last_calls[2].fn = "langdetect.detect"
                /\ last_calls[2].res.kind = "raise")
            => LastProcessed.original_language = UNKNOWN
        /\ \A i \in CallsOf(last_calls, "GoogleTranslator.translate") :
            (last_calls[i].res.kind = "raise" \/ last_calls[i].res.value = PyNone)
            => LastProcessed.translated_text = LastProcessed.text
        /\ \A i \in CallsOf(last_calls, "TextBlob") :
            last_calls[i].res.kind = "raise"
            => LastProcessed.sentiment = "Neutral" /\ LastProcessed.polarity = 0

\* a batch of two or more comments was returned although the detector, the
\* backend and the scorer all raised on its last comment
C1_Witness ==
    /\ pc = "returned"
    /\ Len(raw) >= 2
    /\ Len(enrich_ret.value) = Len(raw)
    /\ last_calls[2].fn = "langdetect.detect" /\ last_calls[2].res.kind = "raise"
    /\ \E i \in CallsOf(last_calls, "GoogleTranslator.translate") : last_calls[i].res.kind = "raise"
    /\ \E i \in CallsOf(last_calls, "TextBlob") : last_calls[i].res.kind = "raise"
    /\ LastProcessed.original_language = UNKNOWN
    /\ LastProcessed.translated_text = LastProcessed.text
    /\ LastProcessed.sentiment = "Neutral"

\* C2: fetch_comments returns at most max_results items (none when
\* max_results is negative), and what it returns is a prefix, in arrival
\* order, of the concatenation of the pages received, whatever the pages hold.
C2_CappedPrefix ==
    (pc = "returned" /\ mode = "capped") =>
        /\ fetch_ret.kind = "return"
        /\ max_results >= 0 => Len(fetch_ret.value) <= max_results
        /\ max_results < 0 => fetch_ret.value = <<>>
        /\ IsPrefix(fetch_ret.value, Concat(pages))

\* the capped fetch returned exactly max_results items although the pages
\* received hold more and the upstream has a further page
C2_Witness ==
    /\ pc = "returned" /\ mode = "capped"
    /\ max_results >= 2
    /\ Len(fetch_ret.value) = max_results
    /\ Len(Concat(pages)) > max_results
    /\ Len(pages) >= 2
    /\ pages[Len(pages)].nextPageToken # PyNone

\* C3: a page request that fails ends the whole fetch, in both modes, with
\* a raised error that carries the underlying message; the failed request
\* is the last one issued (no retry, no skip) and no list is returned, so a
\* returned list means that every request was answered.
C3_AllOrError ==
    /\ Len(requests) > Len(pages) =>
        /\ pc = "raised"
        /\ fetch_ret.kind = "raise"
        /\ \E e \in UpstreamErrors : fetch_ret.value = <<"Error fetching comments: ", e>>
        /\ Len(requests) = Len(pages) + 1
    /\ fetch_ret.kind = "return" => Len(requests) = Len(pages)
    /\ Len(requests) >= Len(pages)

\* a request failed after two pages had been received and accumulated
C3_Witness ==
    /\ pc = "raised"
    /\ Len(pages) >= 2
    /\ Len(requests) = Len(pages) + 1
    /\ Len(comments) >= 2
    /\ fetch_ret.kind = "raise"

\* C4: fetch_all_comments returns exactly the concatenation, in arrival
\* order, of the items of every page served, and it returns only at the
\* first page whose response has no next-page token.
C4_FetchAllComplete ==
    (pc = "returned" /\ mode = "all") =>
        /\ fetch_ret.kind = "return"
        /\ fetch_ret.value = Concat(pages)
        /\ pages # <<>>
        /\ pages[Len(pages)].nextPageToken = PyNone
        /\ \A i \in 1..(Len(pages) - 1) : pages[i].nextPageToken # PyNone
        /\ Len(requests) = Len(pages)

\* the uncapped fetch returned the items of three or more pages
C4_Witness ==
    /\ pc = "returned" /\ mode = "all"
    /\ Len(pages) >= 3
    /\ Len(fetch_ret.value) >= 4
    /\ fetch_ret.value = Concat(pages)

\* the trace of the direct call
CallTrace == call.ret.calls

\* C5: the label analyze_sentiment returns is Positive iff the polarity the
\* scorer gave is above 0.1, Negative iff it is below -0.1 and Neutral
\* otherwise (0.1 and -0.1 themselves are Neutral), and the polarity
\* returned is that same polarity.
C5_LabelThresholds ==
    (call.fn = "analyze_sentiment" /\ CallTrace[1].res.kind = "return") =>
        LET p == CallTrace[1].res.value
            v == call.ret.value
        IN /\ call.ret.kind = "return"
           /\ v.polarity = p
           /\ v.sentiment \in {"Positive", "Negative", "Neutral"}
           /\ v.sentiment = "Positive" <=> p > 1000000
           /\ v.sentiment = "Negative" <=> p < -1000000
           /\ v.sentiment = "Neutral" <=> (p >= -1000000 /\ p <= 1000000)

\* the scorer gave exactly 0.1 and the label is Neutral
C5_Witness ==
    /\ call.fn = "analyze_sentiment"
    /\ CallTrace[1].res = Outcome("return", 1000000)
    /\ call.ret.value = [sentiment |-> "Neutral", polarity |-> 1000000]

\* C6: translate_to_english never raises; when the backend returns null,
\* returns an empty string or raises, it returns the original text; so a
\* non-empty text never gives an empty result.
C6_FallbackToOriginal ==
    call.fn = "translate_to_english" =>
        /\ call.ret.kind = "return"
        /\ \A i \in CallsOf(CallTrace, "GoogleTranslator.translate") :
            (\/ CallTrace[i].res.kind = "raise"
             \/ CallTrace[i].res.value = PyNone
             \/ CallTrace[i].res.value = Str(<<>>))
            => call.ret.value = call.text
        /\ (IsStr(call.text) /\ call.text.v # <<>>) => call.ret.value # Str(<<>>)

\* C7: when the supplied source language, or the language detected because
\* none was supplied, is en or unknown, translate_to_english returns its
\* input and does not call the translation backend.
C7_NoBackendForEnglish ==
    (/\ call.fn = "translate_to_english"
     /\ \/ call.src_lang \in {EN, UNKNOWN}
        \/ /\ call.src_lang = PyNone
           /\ \E i \in CallsOf(CallTrace, "detect_language") :
                /\ CallTrace[i].res.kind = "return"
                /\ CallTrace[i].res.value \in {EN, UNKNOWN})
    => /\ call.ret.kind = "return"
       /\ call.ret.value = call.text
       /\ CallsOf(CallTrace, "GoogleTranslator.translate") = {}

\* no language was supplied, the detector raised on a text with letters, and
\* the text came back without a backend call
C7_Witness ==
    /\ call.fn = "translate_to_english"
    /\ call.src_lang = PyNone
    /\ \E i \in CallsOf(CallTrace, "langdetect.detect") : CallTrace[i].res.kind = "raise"
    /\ \E i \in CallsOf(CallTrace, "detect_language") : CallTrace[i].res.value = UNKNOWN
    /\ call.ret.value = call.text
    /\ CallsOf(CallTrace, "GoogleTranslator.translate") = {}

\* C8: detect_language returns unknown for an empty text, a whitespace-only
\* text and a text without any alphanumeric character, and does not call
\* the statistical detector for them.
C8_UnknownBeforeDetector ==
    (/\ call.fn = "detect_language"
     /\ IsStr(call.text)
     /\ \/ call.text.v = <<>>
        \/ \A i \in DOMAIN call.text.v : call.text.v[i] \in {" ", "\n", "\t"}
        \/ \A i \in DOMAIN call.text.v : ~IsAlnum(call.text.v[i]))
    => /\ call.ret.kind = "return"
       /\ call.ret.value = UNKNOWN
       /\ CallTrace = <<>>

\* a text of symbols only gave unknown without a detector call
C8_Witness ==
    /\ call.fn = "detect_language"
    /\ call.text = Str(<<"!", "?", "_">>)
    /\ call.ret.value = UNKNOWN
    /\ CallTrace = <<>>

\* C9: detect_language never raises: every call returns a language code,
\* and a call whose detector raised returns unknown.
C9_DetectNeverRaises ==
    call.fn = "detect_language" =>
        /\ call.ret.kind = "return"
        /\ IsStr(call.ret.value)
        /\ \A i \in CallsOf(CallTrace, "langdetect.detect") :
            CallTrace[i].res.kind = "raise" => call.ret.value = UNKNOWN

\* the detector raised and the call returned unknown
C9_Witness ==
    /\ call.fn = "detect_language"
    /\ CallTrace # <<>>
    /\ CallTrace[1].fn = "langdetect.detect"
    /\ CallTrace[1].res.kind = "raise"
    /\ call.ret = Return(UNKNOWN, CallTrace)

\* C10: in every iteration of the enrichment loop the sentiment scorer and
\* the toxicity detector are each called once, on the translated_text that
\* the record stores, after the language detection and the translation of
\* that comment, and the record stores what they returned.
C10_ClassifyTranslated ==
    IterationDone =>
        LET tr == last_calls
            rec == LastProcessed
            before == CallsOf(tr, "detect_language") \cup CallsOf(tr, "translate_to_english")
                      \cup CallsOf(tr, "langdetect.detect")
                      \cup CallsOf(tr, "GoogleTranslator.translate")
        IN /\ Cardinality(CallsOf(tr, "analyze_sentiment")) = 1
           /\ Cardinality(CallsOf(tr, "detect_toxicity")) = 1
           /\ tr[1].fn = "detect_language"
           /\ rec.original_language # EN => CallsOf(tr, "translate_to_english") # {}
           /\ \A i \in CallsOf(tr, "analyze_sentiment") \cup CallsOf(tr, "TextBlob")
                       \cup CallsOf(tr, "detect_toxicity") :
                /\ tr[i].arg = rec.translated_text
                /\ \A j \in before : j < i
           /\ \A i \in CallsOf(tr, "analyze_sentiment") :
                /\ tr[i].res.value.sentiment = rec.sentiment
                /\ tr[i].res.value.polarity = rec.polarity
           /\ \A i \in CallsOf(tr, "detect_toxicity") : tr[i].res.value = rec.is_toxic

\* a comment whose translation differs from its text was flagged toxic on
\* account of the translation only
C10_Witness ==
    /\ IterationDone
    /\ LastProcessed.translated_text # LastProcessed.text
    /\ LastProcessed.text.v # <<>>
    /\ LastProcessed.is_toxic
    /\ ~detect_toxicity(LastProcessed.text).value
    /\ \E i \in CallsOf(last_calls, "detect_toxicity") :
        last_calls[i].arg = LastProcessed.translated_text

\* the six fields of a raw comment
RawFields(c) == <<c.id, c.author, c.text, c.published_at, c.like_count, c.updated_at>>

\* C11: the enriched list is positional: it never holds more records than
\* there are raw comments, its i-th record carries the six raw fields of the
\* i-th raw comment unchanged, and the returned list has the length of the
\* input.
C11_PositionalRawFields ==
    /\ Len(processed_comments) <= Len(raw)
    /\ \A i \in DOMAIN processed_comments :
        /\ RawFields(processed_comments[i]) = RawFields(raw[i])
        /\ DOMAIN processed_comments[i] =
            {"id", "author", "text", "published_at", "like_count", "updated_at",
             "original_language", "translated_text", "sentiment", "polarity", "is_toxic"}
    /\ pc = "returned" =>
        /\ Len(enrich_ret.value) = Len(raw)
        /\ \A i \in DOMAIN raw : RawFields(enrich_ret.value[i]) = RawFields(raw[i])

\* a batch of two different comments was returned, the second one translated
C11_Witness ==
    /\ pc = "returned"
    /\ Len(raw) >= 2
    /\ raw[1].text # raw[2].text
    /\ enrich_ret.value[2].translated_text # raw[2].text
    /\ enrich_ret.value[1].text = raw[1].text
    /\ enrich_ret.value[2].text = raw[2].text

\* C16: a fetch whose video URL cannot be resolved raises the precondition
\* error, and one whose API credential is missing raises the configuration
\* error; in both cases the API client is not built and no page request is
\* issued, whatever max_results is.
C16_PreconditionsBeforeIO ==
    pc # "fetch_start" =>
        /\ Falsy(get_video_id(video_url)) =>
            /\ pc = "raised"
            /\ fetch_ret = Raise("ValueError: Invalid YouTube URL or unable to extract video ID", <<>>)
            /\ ~client_built
            /\ requests = <<>>
        /\ (~Falsy(get_video_id(video_url)) /\ Falsy(api_key)) =>
            /\ pc = "raised"
            /\ fetch_ret = Raise("ValueError: YouTube API key not found", <<>>)
            /\ ~client_built
            /\ requests = <<>>

\* a fetch of a resolvable URL with an empty credential and a positive cap
\* raised before anything was built or requested
C16_Witness ==
    /\ pc = "raised"
    /\ ~Falsy(get_video_id(video_url))
    /\ api_key = Str(<<>>)
    /\ max_results > 0
    /\ ~client_built
    /\ requests = <<>>

\* a blocklisted keyword occurs somewhere in s
HasKeyword(s) ==
    \E k \in DOMAIN toxicity_keywords :
        \E i \in 1..Len(s) : OccursAt(s, toxicity_keywords[k], i)
\* one of the regex patterns is found in s
MatchesPattern(s) ==
    \/ SearchYouAre(s)
    \/ \E k \in DOMAIN word_patterns : SearchWord(s, word_patterns[k])
TextIs(s) == call.text = Str(s)

\* C17: for a text, detect_toxicity returns true exactly when the lower-cased
\* text holds a blocklisted keyword as a substring (also inside a longer word
\* or after a negation) or matches one of the patterns, whatever the case of
\* the letters; a text with no keyword and no pattern match gives false.
C17_KeywordOrPattern ==
    (call.fn = "detect_toxicity" /\ IsStr(call.text)) =>
        /\ call.ret.kind = "return"
        /\ call.ret.value =
            (HasKeyword(Lower(call.text.v)) \/ MatchesPattern(Lower(call.text.v)))
        /\ TextIs(<<"n", "o", "t", " ", "s", "t", "u", "p", "i", "d">>) => call.ret.value = TRUE
        /\ TextIs(<<"S", "k", "i", "l", "l">>) => call.ret.value = TRUE
        /\ TextIs(<<"K", "Y", "S">>) => call.ret.value = TRUE
        /\ TextIs(<<"y", "o", "u", " ", "a", "r", "e", " ", " ", "a", " ", "M", "O", "R", "O", "N">>)
            => call.ret.value = TRUE
        /\ TextIs(<<"t", "o", " ", "d", "i", "e", " ", "f", "o", "r">>) => call.ret.value = TRUE
        /\ TextIs(<<"s", "t", "u", "d", "i", "e", "d">>) => call.ret.value = FALSE
        /\ TextIs(<<"H", "o", "l", "a", " ", "a", "m", "i", "g", "o">>) => call.ret.value = FALSE
        /\ TextIs(<<>>) => call.ret.value = FALSE

\* an upper-case text with no keyword was found toxic by a pattern
C17_Witness ==
    /\ call.fn = "detect_toxicity"
    /\ IsStr(call.text)
    /\ call.text.v # Lower(call.text.v)
    /\ ~HasKeyword(Lower(call.text.v))
    /\ call.ret = Return(TRUE, <<>>)

\* C18: detect_toxicity is total: for every text, the empty one and a missing
\* (None) one included, it returns a boolean and never raises.
C18_ToxicityTotal ==
    call.fn = "detect_toxicity" =>
        /\ call.ret.kind = "return"
        /\ call.ret.value \in BOOLEAN

\* C19: for every 11-character identifier, get_video_id returns that
\* identifier for the watch form (v= first, last or between other
\* parameters), the short-link form and the embed form of its URL.
C19_AllFormsSameId ==
    call.fn = "get_video_id" =>
        \A id \in VideoIds :
            call.text \in {Str(u) : u \in UrlForms(id)} => call.ret = Return(Str(id), <<>>)

\* the identifier with underscores and hyphens was read from a watch URL
\* whose v= is not the first parameter
C19_Witness ==
    /\ call.fn = "get_video_id"
    /\ call.text = Str(WatchUrlLaterV(<<"a", "_", "c", "-", "e", "0", "g", "1", "i", "2", "k">>))
    /\ call.ret.value = Str(<<"a", "_", "c", "-", "e", "0", "g", "1", "i", "2", "k">>)

\* the characters [a-zA-Z0-9_-], written out
IdAlphabet ==
    {"a", "b", "c", "d", "e", "f", "g", "h", "i", "j", "k", "l", "m", "n", "o", "p", "q",
     "r", "s", "t", "u", "v", "w", "x", "y", "z", "A", "B", "C", "D", "E", "F", "G", "H",
     "I", "J", "K", "L", "M", "N", "O", "P", "Q", "R", "S", "T", "U", "V", "W", "X", "Y",
     "Z", "0", "1", "2", "3", "4", "5", "6", "7", "8", "9", "_", "-"}

\* C20: for every input string get_video_id returns, without raising, either
\* None or a string of exactly 11 characters of [A-Za-z0-9_-] that occurs in
\* the input.
C20_WellFormedId ==
    call.fn = "get_video_id" =>
        /\ call.ret.kind = "return"
        /\ \/ call.ret.value = PyNone
           \/ /\ IsStr(call.ret.value)
              /\ Len(call.ret.value.v) = 11
              /\ \A k \in 1..11 : call.ret.value.v[k] \in IdAlphabet
              /\ Contains(call.text.v, call.ret.value.v)

RECURSIVE SumOver(_, _)
\* the sum of the counts of f over the keys S
SumOver(f, S) ==
    IF S = {} THEN 0
    ELSE LET k == CHOOSE x \in S : TRUE IN f[k] + SumOver(f, S \ {k})
Summary == call.ret.value

\* C12: get_analysis_summary of a list gives total_comments equal to the
\* length of the list, sentiment counts that sum to it, language counts that
\* sum to it, toxic_comments_count equal to the number of records with
\* is_toxic, and three sample lists of at most 3 entries each.
C12_SummaryCounts ==
    call.fn = "get_analysis_summary" =>
        /\ Summary.total_comments = Len(processed_comments)
        /\ SumOver(Summary.sentiment_distribution, DOMAIN Summary.sentiment_distribution)
            = Summary.total_comments
        /\ SumOver(Summary.language_distribution, DOMAIN Summary.language_distribution)
            = Summary.total_comments
        /\ \A L \in DOMAIN Summary.sentiment_distribution :
            Summary.sentiment_distribution[L] =
                Cardinality({i \in DOMAIN processed_comments : processed_comments[i].sentiment = L})
        /\ Summary.toxic_comments_count =
            Cardinality({i \in DOMAIN processed_comments : processed_comments[i].is_toxic})
        /\ Len(Summary.sample_comments.positive) <= 3
        /\ Len(Summary.sample_comments.negative) <= 3
        /\ Len(Summary.sample_comments.neutral) <= 3

\* four comments of one label, some toxic, were summarised: the cap of the
\* sample list cut one off
C12_Witness ==
    /\ call.fn = "get_analysis_summary"
    /\ Len(processed_comments) = 4
    /\ \A i \in DOMAIN processed_comments : processed_comments[i].sentiment = "Negative"
    /\ Summary.toxic_comments_count = 4
    /\ Summary.sentiment_distribution["Negative"] = 4
    /\ Cardinality(DOMAIN Summary.language_distribution) = 2
    /\ Len(Summary.sample_comments.negative) = 3

\* the texts of the comments of a label, in order
TextsOf(label) == Texts(WithSentiment(processed_comments, label))
\* entry i of a sample list is the i-th text of the label, cut to 100
\* characters and followed by "..." exactly when it is longer
Truncated(sample, label) ==
    /\ Len(sample) <= Len(TextsOf(label))
    /\ \A i \in DOMAIN sample :
        LET t == TextsOf(label)[i].v
        IN sample[i].v = IF Len(t) > 100
                         THEN SubSeq(t, 1, 100) \o <<".", ".", ".">>
                         ELSE t

\* C13: in the summary of get_analysis_summary and in the response of
\* api_analyze, every entry of sample_comments is the comment text cut to at
\* most 100 characters, followed by an ellipsis exactly when the text is
\* longer than 100 characters.
C13_SamplesTruncated ==
    call.fn \in {"get_analysis_summary", "api_analyze"} =>
        /\ Truncated(Summary.sample_comments.positive, "Positive")
        /\ Truncated(Summary.sample_comments.negative, "Negative")
        /\ Truncated(Summary.sample_comments.neutral, "Neutral")

\* the list get_top_comments returned
Ranked == call.ret.value
\* C14: get_top_comments(comments, label, K) returns at most K comments of
\* the list, all with the label, by descending polarity for Positive and
\* ascending polarity for Negative; no omitted comment of the label is more
\* extreme than a returned one, and comments of equal polarity keep their
\* original relative order in both directions.
C14_TopComments ==
    (call.fn = "get_top_comments" /\ call.sentiment \in {"Positive", "Negative"}) =>
        LET same == {i \in DOMAIN processed_comments :
                        processed_comments[i].sentiment = call.sentiment}
            sign == IF call.sentiment = "Positive" THEN 1 ELSE -1
        IN /\ Len(Ranked) = Min(call.top_n, Cardinality(same))
           /\ \A i \in DOMAIN Ranked :
                /\ Ranked[i].sentiment = call.sentiment
                /\ Ranked[i].id \in same
                /\ Ranked[i] = processed_comments[Ranked[i].id]
           /\ \A i, j \in DOMAIN Ranked :
                i < j =>
                    /\ sign * Ranked[i].polarity >= sign * Ranked[j].polarity
                    /\ Ranked[i].polarity = Ranked[j].polarity => Ranked[i].id < Ranked[j].id
           /\ \A k \in same :
                (\A i \in DOMAIN Ranked : Ranked[i].id # k) =>
                    \A i \in DOMAIN Ranked :
                        /\ sign * processed_comments[k].polarity <= sign * Ranked[i].polarity
                        /\ processed_comments[k].polarity = Ranked[i].polarity => Ranked[i].id < k

\* the two best of four positive comments were asked for: the first two have
\* the same polarity and are in their original order, behind a less positive
\* comment that came first in the list and is left out
C14_Witness ==
    /\ call.fn = "get_top_comments"
    /\ call.sentiment = "Positive"
    /\ call.top_n = 2
    /\ Len(processed_comments) = 4
    /\ processed_comments[1].polarity < processed_comments[2].polarity
    /\ Len(Ranked) = 2
    /\ Ranked[1].polarity = Ranked[2].polarity
    /\ Ranked[1].id = 2
    /\ Ranked[2].id > 2
    /\ \A i \in DOMAIN processed_comments : processed_comments[i].sentiment = "Positive"

\* the counts of the list cs
CountsOf(cs) ==
    [total |-> Len(cs),
     positive |-> Cardinality({i \in DOMAIN cs : cs[i].sentiment = "Positive"}),
     negative |-> Cardinality({i \in DOMAIN cs : cs[i].sentiment = "Negative"}),
     neutral |-> Cardinality({i \in DOMAIN cs : cs[i].sentiment = "Neutral"})]

\* C15: in every interleaving of the dashboard's requests, the counts shown
\* for a session's analysis are those of that session's own comments, and the
\* summary given to the assistant for a session's question is the summary of
\* that session's own analysis (or none, if it has not analysed), never one
\* made from another session's comments.
C15_NoCrossRequestAliasing ==
    \A u \in Sessions :
        /\ (sessions[u].dash = "returned" /\ sessions[u].shown # ZeroCounts) =>
            sessions[u].shown = CountsOf(DashBatch(u))
        /\ sessions[u].chat = "answered" =>
            sessions[u].context \in {<<>>, get_analysis_summary(DashBatch(u))}

\* C22: with an upstream that answers every page request, fetch_comments
\* eventually returns or raises.
C22_CappedTerminates == <>(pc \in {"returned", "raised"})

\* the number of comments fetched before the i-th request
FetchedBefore(i) == Len(Concat(SubSeq(pages, 1, i - 1)))

\* C23: every page request of fetch_comments asks for
\* min(100, max_results - alreadyFetched) items, a number from 1 to 100, and
\* is issued only while alreadyFetched < max_results, so that max_results <= 0
\* issues no request and returns the empty list; every page request of
\* fetch_all_comments asks for 100 items.
C23_PageSize ==
    /\ \A i \in DOMAIN requests :
        IF mode = "capped"
        THEN /\ FetchedBefore(i) < max_results
             /\ requests[i].maxResults =
                    IF max_results - FetchedBefore(i) > 100
                    THEN 100 ELSE max_results - FetchedBefore(i)
             /\ requests[i].maxResults \in 1..100
        ELSE requests[i].maxResults = 100
    /\ (mode = "capped" /\ max_results <= 0 /\ pc \notin {"fetch_start", "raised"}) =>
        /\ requests = <<>>
        /\ pc = "returned"
        /\ fetch_ret = Return(<<>>, <<>>)

\* with max_results = 101 a first request asked for 100 items and, after a
\* page of two comments, a second one asked for 99
C23_Witness ==
    /\ mode = "capped"
    /\ max_results = 101
    /\ Len(requests) >= 2
    /\ requests[1].maxResults = 100
    /\ Len(pages[1].items) = 2
    /\ requests[2].maxResults = 99

\* C24: the first page request carries no page token; every later request
\* carries the token of the response just before it, which is a token; the
\* requests are sequential (at most one is unanswered, the last one, when it
\* raised); and fetch_all_comments returns only after a response without a
\* token.
C24_CursorProtocol ==
    /\ Len(requests) \in {Len(pages), Len(pages) + 1}
    /\ Len(requests) = Len(pages) + 1 => pc = "raised"
    /\ \A i \in DOMAIN requests :
        IF i = 1
        THEN requests[i].pageToken = PyNone
        ELSE /\ ~Falsy(pages[i - 1].nextPageToken)
             /\ requests[i].pageToken = pages[i - 1].nextPageToken
    /\ (pc = "returned" /\ pages # <<>> /\ Falsy(pages[Len(pages)].nextPageToken)) =>
        Len(requests) = Len(pages)
    /\ (mode = "all" /\ pc = "returned") =>
        /\ pages # <<>>
        /\ Falsy(pages[Len(pages)].nextPageToken)

\* fetch_all_comments returned after three requests whose second and third
\* carried two different tokens, each the one of the response before
C24_Witness ==
    /\ mode = "all"
    /\ pc = "returned"
    /\ Len(requests) = 3
    /\ requests[2].pageToken = pages[1].nextPageToken
    /\ requests[3].pageToken = pages[2].nextPageToken
    /\ requests[2].pageToken # requests[3].pageToken

\* the context object cannot be read as a summary
BadContext(c) ==
    c \in {Str(<<"c", "t", "x">>), [sample_comments |-> Str(<<"c", "t", "x">>)]}

\* C21: ask_question always returns: the fixed 'not available' message when
\* there is no model, and an apology that holds the error text when the
\* prompt cannot be built or the model call fails; otherwise the model's text.
C21_AssistantNeverRaises ==
    call.fn = "ask_question" =>
        /\ call.ret.kind = "return"
        /\ call.model = PyNone =>
            call.ret.value = "Chatbot is not available. Please check your API configuration."
        /\ (call.model # PyNone /\ BadContext(call.context_data)) =>
            /\ Len(call.ret.value) = 2
            /\ call.ret.value[1] = "Sorry, I encountered an error while processing your question: "
            /\ call.ret.value[2] \in {"AttributeError: get", "AttributeError: items"}
            /\ call.ret.calls = <<>>
        /\ (call.model # PyNone /\ ~BadContext(call.context_data)) =>
            IF call.gen.kind = "raise"
            THEN call.ret.value =
                    <<"Sorry, I encountered an error while processing your question: ",
                      call.gen.value>>
            ELSE call.ret.value = call.gen.value

\* a question with a summary as context was put to a model whose call raised,
\* and an apology with the error text came back
C21_Witness ==
    /\ call.fn = "ask_question"
    /\ call.model # PyNone
    /\ call.context_data = get_analysis_summary(DashBatch(1))
    /\ call.gen = Outcome("raise", "ResourceExhausted: quota")
    /\ call.ret.kind = "return"
    /\ call.ret.value[2] = "ResourceExhausted: quota"
    /\ Len(call.ret.calls) = 1

\* the places of the comments of a label, and the j-th of them
PlacesOf(label) == {i \in DOMAIN processed_comments : processed_comments[i].sentiment = label}
NthPlace(label, j) ==
    CHOOSE i \in PlacesOf(label) : Cardinality({k \in PlacesOf(label) : k < i}) = j - 1
\* sample is made of the first n comments of the label, in list order: entry j
\* starts like the text of the j-th of them
FirstOf(sample, label, n) ==
    /\ Len(sample) = Min(n, Cardinality(PlacesOf(label)))
    /\ \A j \in DOMAIN sample :
        LET t == processed_comments[NthPlace(label, j)].text.v
            m == Min(Len(t), 100)
        IN /\ Len(sample[j].v) >= m
           /\ SubSeq(sample[j].v, 1, m) = SubSeq(t, 1, m)

\* C25: for each label the sample list is built from the first N comments of
\* that label in the order of the enriched list (N = 3 in
\* get_analysis_summary, 5 in api_analyze): entry j comes from the j-th
\* matching comment, and all matching comments are there when fewer than N
\* exist.
C25_SamplesInPipelineOrder ==
    call.fn \in {"get_analysis_summary", "api_analyze"} =>
        LET n == IF call.fn = "api_analyze" THEN 5 ELSE 3
        IN /\ FirstOf(Summary.sample_comments.positive, "Positive", n)
           /\ FirstOf(Summary.sample_comments.negative, "Negative", n)
           /\ FirstOf(Summary.sample_comments.neutral, "Neutral", n)

\* api_analyze answered for twelve positive comments with two texts by
\* turns: five samples, by turns too, starting with the first comment's text
C25_Witness ==
    /\ call.fn = "api_analyze"
    /\ Len(processed_comments) = 12
    /\ Cardinality(PlacesOf("Positive")) = 12
    /\ processed_comments[1].text # processed_comments[2].text
    /\ Len(Summary.sample_comments.positive) = 5
    /\ Summary.sample_comments.positive[1] = processed_comments[1].text
    /\ Summary.sample_comments.positive[2] = processed_comments[2].text
    /\ Summary.sample_comments.positive[5] = processed_comments[5].text

\* the keys of d are the values seen, each counted at least once
KeysAreObserved(d, seen) ==
    /\ DOMAIN d = seen
    /\ \A k \in DOMAIN d : d[k] >= 1

\* C30: in the summary of get_analysis_summary and in the response of
\* api_analyze, sentiment_distribution and language_distribution have a key
\* exactly for every label or language that some comment has, with a count of
\* at least 1; sentiment keys are among Positive, Negative and Neutral; an
\* empty list gives two empty mappings and total_comments 0.
C30_KeysAreObservedValues ==
    call.fn \in {"get_analysis_summary", "api_analyze"} =>
        /\ KeysAreObserved(Summary.sentiment_distribution,
                {processed_comments[i].sentiment : i \in DOMAIN processed_comments})
        /\ KeysAreObserved(Summary.language_distribution,
                {processed_comments[i].original_language : i \in DOMAIN processed_comments})
        /\ DOMAIN Summary.sentiment_distribution \subseteq {"Positive", "Negative", "Neutral"}
        /\ processed_comments = <<>> =>
            /\ DOMAIN Summary.sentiment_distribution = {}
            /\ DOMAIN Summary.language_distribution = {}
            /\ Summary.total_comments = 0

\* a summary of four comments, none of them neutral and none in French: the
\* sentiment keys are Positive and Negative only
C30_Witness ==
    /\ call.fn = "get_analysis_summary"
    /\ Len(processed_comments) = 4
    /\ DOMAIN Summary.sentiment_distribution = {"Positive", "Negative"}
    /\ Summary.sentiment_distribution["Positive"] = 3
    /\ DOMAIN Summary.language_distribution = {EN}

\* C28: an enriched comment whose recorded original_language is en or unknown
\* has translated_text equal to its text, and the translation backend was not
\* called for it, whatever the detector does on each of its calls.
C28_NoTranslationForEnglishOrUnknown ==
    /\ \A i \in DOMAIN processed_comments :
        processed_comments[i].original_language \in {EN, UNKNOWN} =>
            processed_comments[i].translated_text = processed_comments[i].text
    /\ (IterationDone /\ LastProcessed.original_language \in {EN, UNKNOWN}) =>
        CallsOf(last_calls, "GoogleTranslator.translate") = {}

\* an update_dashboard has just ended without an analysis: it returned early
\* or process_comments raised
EndsWithoutAnalysis ==
    \E u \in Sessions :
        /\ sessions[u].dash = "idle"
        /\ sessions'[u].dash \in {"returned", "failed"}
\* the sessions whose analysis was carried out and shown
Analysed == {u \in Sessions : sessions[u].dash = "returned" /\ sessions[u].shown # ZeroCounts}
\* a chat question is answered from the summary of an analysis carried out
AnsweredFromAnalysis ==
    \A u \in Sessions :
        sessions[u].chat = "answered" =>
            /\ Analysed # {}
            /\ sessions[u].context \in {get_analysis_summary(DashBatch(v)) : v \in Analysed}

Succeeded == pc = "responded" /\ responses # <<>> /\ responses[Len(responses)].status = 200
\* the comment records keyed by the search record s, in the order of storage
RecordsOf(s) == SelectSeq(db.comment_analysis, LAMBDA r : r.search_id = s.id)
\* the values of a field of the enriched comments
FieldOf(cs, field) == [i \in DOMAIN cs |-> cs[i][field]]
\* the record r stores the enriched comment c
Stores(r, c) ==
    /\ r.comment_id = c.id /\ r.author = c.author /\ r.text = c.text
    /\ r.original_language = c.original_language /\ r.sentiment = c.sentiment
    /\ r.polarity = c.polarity /\ r.is_toxic = c.is_toxic

\* C26: bounded persistence. When api_analyze has answered an analysis of n
\* enriched comments with a success, the database holds one search record of
\* that request, with total_comments = n and the sentiment and language
\* distributions of all n comments, and exactly min(50, n) comment records
\* keyed by that record's id: the first min(50, n) enriched comments, in
\* pipeline order.
C26_BoundedPersistence ==
    Succeeded =>
        LET n == Len(processed_comments)
            s == db.search_history[Len(db.search_history)]
        IN /\ Cardinality({i \in DOMAIN db.search_history : db.search_history[i].id = s.id}) = 1
           /\ s.youtube_url = video_url
           /\ s.total_comments = n
           /\ from_json_filter(s.sentiment_distribution)
                = Counter(FieldOf(processed_comments, "sentiment"))
           /\ from_json_filter(s.language_distribution)
                = Counter(FieldOf(processed_comments, "original_language"))
           /\ Len(RecordsOf(s)) = Min(PersistCap, n)
           /\ \A i \in DOMAIN RecordsOf(s) : Stores(RecordsOf(s)[i], processed_comments[i])

\* a second analysis, of more comments than are stored, has succeeded after a
\* first one whose comments were stored too
C26_Witness ==
    /\ Succeeded
    /\ Len(processed_comments) = PersistCap + 1
    /\ Len(db.search_history) = 2
    /\ Len(RecordsOf(db.search_history[1])) > 0
    /\ Len(RecordsOf(db.search_history[2])) = PersistCap

\* the requests that have been answered
Answered == IF pc \in {"api", "responded"} THEN api_requests ELSE api_requests - 1
\* the number of success responses
Successes == Cardinality({i \in DOMAIN responses : responses[i].status = 200})

\* C27: api_analyze is all-or-nothing. Every request is answered once, with a
\* success that carries the full result or with one error, 400 for a missing
\* URL and 500 otherwise; between requests the database holds one search
\* record per success response and none for an error response, and every
\* committed search record has its min(50, n) comment records.
C27_AllOrNothing ==
    /\ Len(responses) = Answered
    /\ \A i \in DOMAIN responses : responses[i].status \in {200, 400, 500}
    /\ pc = "responded" =>
        /\ responses[Len(responses)].status = 400 <=> Falsy(video_url)
        /\ Succeeded => responses[Len(responses)].body = api_analyze_response(processed_comments)
        /\ Len(db.search_history) = Successes
        /\ \A i \in DOMAIN db.search_history :
                Len(RecordsOf(db.search_history[i]))
                    = Min(PersistCap, db.search_history[i].total_comments)
====
